---- MODULE Spec2Model ----
(***************************************************************************)
(* A model of the Jsonnet language server: the recursive-descent parser    *)
(* (src/server/parser/node.ts), the analyzer's hover / completion entry    *)
(* points (src/unnamed/part_000) and the document events that drive them.  *)
(* A document is a sequence of tokens; every token is one column wide, so  *)
(* token i of a document spans columns i .. i+1 of line 1.                 *)
(***************************************************************************)
EXTENDS Integers, Sequences, FiniteSets

\* ---------------------------------------------------------------------
\* Bounds of the model.

\* Longest document, in typed fragments.
MaxFrags == 3
\* Most annotation passes over one tree.
MaxWrites == 2
\* Deepest recursion of the symbol resolver.
MaxResolve == 8

\* ---------------------------------------------------------------------
\* Values shared by the parser and the analyzer.

\* `null` / `undefined` of the source.
Null == [type |-> "null"]

IsNull(x) == x.type = "null"

\* error.LocationRange on line 1: begin and end column.
MakeLocationRange(b, e) == [b |-> b, e |-> e]

\* lexer.Token: kind, data and location.
Tok(kind, data) == [kind |-> kind, data |-> data]

\* The token found past the end of the token list (List.get gives undefined).
UndefinedTok == [kind |-> "undefined", data |-> "", loc |-> MakeLocationRange(0, 0)]

\* this.t.get(i) on the immutable token list (1-based here).
Get(t, i) == IF i \in 1..Len(t) THEN t[i] ELSE UndefinedTok

\* error.MakeStaticError / error.MakeStaticErrorRest.
MakeStaticError(msg, loc) == [type |-> "StaticError", msg |-> msg, loc |-> loc, rest |-> Null]

MakeStaticErrorRest(rest, msg, loc) == [type |-> "StaticError", msg |-> msg, loc |-> loc, rest |-> rest]

\* Result of a parser method: either a value and the new token index
\* (this.currT), or a StaticError.
Ok(v, p) == [ok |-> TRUE, v |-> v, err |-> Null, p |-> p]

Fail(e, p) == [ok |-> FALSE, v |-> Null, err |-> e, p |-> p]

\* ---------------------------------------------------------------------
\* Precedence table.

\* applyPrecedence as it would be if calls and indexing were parsed on the
\* level of the shift operators.
applyPrecedenceOfShift == 2 + 5

applyPrecedence == 2

unaryPrecedence == 4

maxPrecedence == 16

BopMap ==
  [o \in {"*", "/", "%", "+", "-", "<<", ">>", ">", ">=", "<", "<=",
          "==", "!=", "&", "^", "|", "&&", "||"} |->
     CASE o = "*" -> "BopMult" [] o = "/" -> "BopDiv" [] o = "%" -> "BopPercent"
       [] o = "+" -> "BopPlus" [] o = "-" -> "BopMinus"
       [] o = "<<" -> "BopShiftL" [] o = ">>" -> "BopShiftR"
       [] o = ">" -> "BopGreater" [] o = ">=" -> "BopGreaterEq"
       [] o = "<" -> "BopLess" [] o = "<=" -> "BopLessEq"
       [] o = "==" -> "BopManifestEqual" [] o = "!=" -> "BopManifestUnequal"
       [] o = "&" -> "BopBitwiseAnd" [] o = "^" -> "BopBitwiseXor"
       [] o = "|" -> "BopBitwiseOr" [] o = "&&" -> "BopAnd" [] o = "||" -> "BopOr"]

UopMap ==
  [o \in {"!", "~", "+", "-"} |->
     CASE o = "!" -> "UopNot" [] o = "~" -> "UopBitwiseNot"
       [] o = "+" -> "UopPlus" [] o = "-" -> "UopMinus"]

bopPrecedence ==
  [b \in {BopMap[o] : o \in DOMAIN BopMap} |->
     CASE b \in {"BopMult", "BopDiv", "BopPercent"} -> 5
       [] b \in {"BopPlus", "BopMinus"} -> 6
       [] b \in {"BopShiftL", "BopShiftR"} -> 7
       [] b \in {"BopGreater", "BopGreaterEq", "BopLess", "BopLessEq"} -> 8
       [] b \in {"BopManifestEqual", "BopManifestUnequal"} -> 9
       [] b = "BopBitwiseAnd" -> 10
       [] b = "BopBitwiseXor" -> 11
       [] b = "BopBitwiseOr" -> 12
       [] b = "BopAnd" -> 13
       [] b = "BopOr" -> 14]

\* ---------------------------------------------------------------------
\* AST nodes (src/server/parser/node.ts).  parent and env are not fields
\* of the node values: they are kept per parse in the annotation tables
\* of the analyzer state, keyed by the node's path from the root.

Identifier(name, loc) == [type |-> "IdentifierNode", name |-> name, loc |-> loc]

Var(id, loc) == [type |-> "VarNode", id |-> id, loc |-> loc]

LiteralNumber(data, loc) == [type |-> "LiteralNumberNode", originalString |-> data, loc |-> loc]

LiteralString(value, kind, loc) == [type |-> "LiteralStringNode", value |-> value, kind |-> kind, loc |-> loc]

LiteralBoolean(value, loc) == [type |-> "LiteralBooleanNode", value |-> value, loc |-> loc]

LiteralNull(loc) == [type |-> "LiteralNullNode", loc |-> loc]

Dollar(loc) == [type |-> "DollarNode", loc |-> loc]

Self(loc) == [type |-> "SelfNode", loc |-> loc]

SuperIndex(index, id, loc) == [type |-> "SuperIndexNode", index |-> index, id |-> id, loc |-> loc]

Binary(left, op, right, loc) == [type |-> "BinaryNode", left |-> left, op |-> op, right |-> right, loc |-> loc]

Unary(op, expr, loc) == [type |-> "UnaryNode", op |-> op, expr |-> expr, loc |-> loc]

\* IndexSubscript sets index, IndexDot sets id.
Index(target, index, id, loc) == [type |-> "IndexNode", target |-> target, index |-> index, id |-> id, loc |-> loc]

Apply(target, args, trailingComma, tailStrict, loc) ==
  [type |-> "ApplyNode", target |-> target, args |-> args,
   trailingComma |-> trailingComma, tailStrict |-> tailStrict, loc |-> loc]

ApplyParamAssignment(id, right, loc) == [type |-> "ApplyParamAssignmentNode", id |-> id, right |-> right, loc |-> loc]

ApplyBrace(left, right, loc) == [type |-> "ApplyBraceNode", left |-> left, right |-> right, loc |-> loc]

Array(elements, trailingComma, loc) == [type |-> "ArrayNode", elements |-> elements, trailingComma |-> trailingComma, loc |-> loc]

ArrayComp(body, trailingComma, specs, loc) ==
  [type |-> "ArrayCompNode", body |-> body, trailingComma |-> trailingComma, specs |-> specs, loc |-> loc]

CompSpecFor(varName, expr, loc) == [type |-> "CompSpecNode", kind |-> "CompFor", varName |-> varName, expr |-> expr, loc |-> loc]

CompSpecIf(expr, loc) == [type |-> "CompSpecNode", kind |-> "CompIf", varName |-> Null, expr |-> expr, loc |-> loc]

makeAssert(cond, message, rest, loc) == [type |-> "AssertNode", cond |-> cond, message |-> message, rest |-> rest, loc |-> loc]

ErrorNode(expr, loc) == [type |-> "ErrorNode", expr |-> expr, loc |-> loc]

Conditional(cond, branchTrue, branchFalse, loc) ==
  [type |-> "ConditionalNode", cond |-> cond, branchTrue |-> branchTrue, branchFalse |-> branchFalse, loc |-> loc]

FunctionParam(id, defaultValue, loc) == [type |-> "FunctionParamNode", id |-> id, defaultValue |-> defaultValue, loc |-> loc]

Function(parameters, trailingComma, body, loc) ==
  [type |-> "FunctionNode", parameters |-> parameters, trailingComma |-> trailingComma, body |-> body, loc |-> loc]

Import(file, loc) == [type |-> "ImportNode", file |-> file, loc |-> loc]

ImportStr(file, loc) == [type |-> "ImportStrNode", file |-> file, loc |-> loc]

makeLocalBind(variable, body, functionSugar, params, trailingComma) ==
  [type |-> "LocalBindNode", variable |-> variable, body |-> body,
   functionSugar |-> functionSugar, params |-> params, trailingComma |-> trailingComma]

Local(binds, body, loc) == [type |-> "LocalNode", binds |-> binds, body |-> body, loc |-> loc]

ObjectField(kind, hide, superSugar, methodSugar, expr1, id, ids, trailingComma, expr2, expr3, headingComments, loc) ==
  [type |-> "ObjectFieldNode", kind |-> kind, hide |-> hide, superSugar |-> superSugar,
   methodSugar |-> methodSugar, expr1 |-> expr1, id |-> id, ids |-> ids,
   trailingComma |-> trailingComma, expr2 |-> expr2, expr3 |-> expr3,
   headingComments |-> headingComments, loc |-> loc]

ObjectNode(fields, trailingComma, headingComments, loc) ==
  [type |-> "ObjectNode", fields |-> fields, trailingComma |-> trailingComma,
   headingComments |-> headingComments, loc |-> loc]

ObjectComp(fields, trailingComma, specs, loc) ==
  [type |-> "ObjectCompNode", fields |-> fields, trailingComma |-> trailingComma, specs |-> specs, loc |-> loc]

\* isLiteralString as it would be if it took every literal with a value.
isLiteralWithValue(x) == x.type \in {"LiteralStringNode", "LiteralBooleanNode"}

isLiteralString(x) == x.type = "LiteralStringNode"

isVar(x) == x.type = "VarNode"

isBinary(x) == x.type = "BinaryNode"

\* ---------------------------------------------------------------------
\* Parser helpers.

makeUnexpectedError(t, during) == MakeStaticError("Unexpected token", t.loc)

locFromTokens(begin, end) == MakeLocationRange(begin.loc.b, end.loc.e)

locFromTokenAST(begin, end) == MakeLocationRange(begin.loc.b, end.loc.e)

\* `const x = e; if (error.isStaticError(x)) { return x; }` followed by the
\* rest of the method: the rest K runs on the result r unless r is an error.
Then(r, K(_)) == IF ~r.ok THEN r ELSE K(r)

\* `const x = e;` followed by the rest of the method.
With(v, K(_)) == K(v)

\* popExpect as it would be if it left the token index where it is.
popExpectWithoutPop(t, p, tk) ==
  IF Get(t, p).kind # tk
    THEN Fail(MakeStaticError("Expected token", Get(t, p).loc), p)
    ELSE Ok(Get(t, p), p)

\* popExpect as it would be if it took the token whatever its kind.
popExpectAny(t, p, tk) == Ok(Get(t, p), p + 1)

\* parser.popExpect: pops one token and checks its kind.
popExpect(t, p, tk) ==
  IF Get(t, p).kind # tk
    THEN Fail(MakeStaticError("Expected token", Get(t, p).loc), p + 1)
    ELSE Ok(Get(t, p), p + 1)

\* parser.popExpectOp: pops one token and checks it is the operator op.
popExpectOp(t, p, op) ==
  IF Get(t, p).kind # "TokenOperator" \/ Get(t, p).data # op
    THEN Fail(MakeStaticError("Expected operator", Get(t, p).loc), p + 1)
    ELSE Ok(Get(t, p), p + 1)

\* parser.parseOptionalComments: the comments at p and the index after them.
RECURSIVE parseOptionalComments(_, _)
parseOptionalComments(t, p) ==
  IF Get(t, p).kind = "TokenCommentCpp"
    THEN LET r == parseOptionalComments(t, p + 1)
         IN  [comments |-> <<Get(t, p).data>> \o r.comments, p |-> r.p]
    ELSE [comments |-> <<>>, p |-> p]

\* ---------------------------------------------------------------------
\* The parser (class parser).  Every method takes the token list t and the
\* index p of the current token (this.currT) and returns Ok or Fail.

RECURSIVE parse(_, _, _, _)
RECURSIVE parseLoop(_, _, _, _, _, _)
RECURSIVE parseLevels(_, _, _, _, _, _)
RECURSIVE parseTerminal(_, _, _)
RECURSIVE parseCommaList(_, _, _, _, _, _, _)
RECURSIVE elementCallback(_, _, _, _)
RECURSIVE parseBind(_, _, _)
RECURSIVE parseLocalBinds(_, _, _)
RECURSIVE parseObjectField(_, _, _, _, _)
RECURSIVE parseObjectLocal(_, _, _, _)
RECURSIVE parseObjectAssert(_, _, _)
RECURSIVE parseObjectCompRemainder(_, _, _, _, _, _)
RECURSIVE parseObjectLoop(_, _, _, _, _, _, _, _, _)
RECURSIVE parseCompSpecs(_, _, _, _)
RECURSIVE parseCompIfs(_, _, _)
RECURSIVE parseArrayRemainder(_, _, _)
RECURSIVE parseArrayLoop(_, _, _, _, _, _)

\* parser.parseCommaList; mode names the elementCallback of the caller
\* ("args" for parseArgsList, "params" for parseParamsList).
parseCommaList(t, p, end, mode, exprs, gotComma, first) ==
  LET takeComma == ~first /\ ~gotComma /\ Get(t, p).kind = "TokenComma"
      p1   == IF takeComma THEN p + 1 ELSE p
      gc   == gotComma \/ takeComma
      next == Get(t, p1)
  IN  IF next.kind = end
        THEN Ok([next |-> next, exprs |-> exprs, gotComma |-> gc], p1 + 1)
      ELSE IF ~first /\ ~gc
        THEN Fail(MakeStaticError("Expected a comma before next element", next.loc), p1)
      ELSE Then(parse(t, p1, maxPrecedence, <<>>), LAMBDA expr :
           Then(elementCallback(mode, t, expr.p, expr.v), LAMBDA mapped :
           parseCommaList(t, mapped.p, end, mode, Append(exprs, mapped.v), FALSE, FALSE)))

\* The element callbacks of parseArgsList and parseParamsList.
elementCallback(mode, t, p, expr) ==
  LET next == Get(t, p)
      isEq == next.kind = "TokenOperator" /\ next.data = "="
  IN  IF mode = "args"
        THEN IF isVar(expr) /\ isEq
               THEN Then(parse(t, p + 1, maxPrecedence, <<>>), LAMBDA assign :
                    Ok(ApplyParamAssignment(expr.id.name, assign.v, expr.loc), assign.p))
               ELSE Ok(expr, p)
      ELSE IF ~isVar(expr)
        THEN Fail(MakeStaticError("Expected simple identifier but got a complex expression", expr.loc), p)
      ELSE IF isEq
        THEN Then(parse(t, p + 1, maxPrecedence, <<>>), LAMBDA assign :
             Ok(FunctionParam(expr.id.name, assign.v, expr.loc), assign.p))
      ELSE Ok(FunctionParam(expr.id.name, Null, expr.loc), p)

\* parser.parseArgsList.
parseArgsList(t, p) == parseCommaList(t, p, "TokenParenR", "args", <<>>, FALSE, TRUE)

\* parser.parseParamsList.
parseParamsList(t, p) == parseCommaList(t, p, "TokenParenR", "params", <<>>, FALSE, TRUE)

\* parseBind as it would be without the check of the name against the
\* binds parsed so far.
parseBindUnchecked(t, p, binds) ==
  Then(popExpect(t, p, "TokenIdentifier"), LAMBDA varID :
  With(Get(t, varID.p).kind = "TokenParenL", LAMBDA functionSugar :
  Then(IF functionSugar THEN parseParamsList(t, varID.p + 1)
       ELSE Ok([next |-> Null, exprs |-> <<>>, gotComma |-> FALSE], varID.p), LAMBDA result :
  Then(popExpectOp(t, result.p, "="), LAMBDA pop :
  Then(parse(t, pop.p, maxPrecedence, <<>>), LAMBDA body :
  Ok(Append(binds,
       makeLocalBind(Identifier(varID.v.data, varID.v.loc), body.v,
                     functionSugar, result.v.exprs, result.v.gotComma)),
     body.p))))))

\* parser.parseBind: one `name = body` or `name(params) = body` of a local.
parseBind(t, p, binds) ==
  Then(popExpect(t, p, "TokenIdentifier"), LAMBDA varID :
  IF \E i \in 1..Len(binds) : binds[i].variable.name = varID.v.data
    THEN Fail(MakeStaticError("Duplicate local var", varID.v.loc), varID.p)
  ELSE
  With(Get(t, varID.p).kind = "TokenParenL", LAMBDA functionSugar :
  Then(IF functionSugar THEN parseParamsList(t, varID.p + 1)
       ELSE Ok([next |-> Null, exprs |-> <<>>, gotComma |-> FALSE], varID.p), LAMBDA result :
  Then(popExpectOp(t, result.p, "="), LAMBDA pop :
  Then(parse(t, pop.p, maxPrecedence, <<>>), LAMBDA body :
  Ok(Append(binds,
       makeLocalBind(Identifier(varID.v.data, varID.v.loc), body.v,
                     functionSugar, result.v.exprs, result.v.gotComma)),
     body.p))))))

\* restFromBinds as it would be if the body of the last binding were the
\* rest whatever its shape.
lastBodyFromBinds(newBinds) ==
  IF Len(newBinds) = 0 THEN Null ELSE newBinds[Len(newBinds)].body

\* restFromBinds: the partial tree reported when a local is not terminated.
restFromBinds(newBinds) ==
  IF Len(newBinds) = 0 THEN Null
  ELSE LET lastBody == newBinds[Len(newBinds)].body
       IN  IF isBinary(lastBody) /\ lastBody.op = "BopPlus" /\ isVar(lastBody.right)
             THEN lastBody.right
           ELSE IF isVar(lastBody) THEN lastBody
           ELSE Null

\* The bind loop of the TokenLocal case of parser.parse.
parseLocalBinds(t, p, binds) ==
  Then(parseBind(t, p, binds), LAMBDA newBinds :
  With(Get(t, newBinds.p), LAMBDA delim :
  IF delim.kind # "TokenSemicolon" /\ delim.kind # "TokenComma"
    THEN With(restFromBinds(newBinds.v), LAMBDA rest :
         IF IsNull(rest)
           THEN Fail(MakeStaticError("Expected , or ;", delim.loc), newBinds.p + 1)
           ELSE Fail(MakeStaticErrorRest(rest, "Expected , or ;", delim.loc), newBinds.p + 1))
  ELSE IF delim.kind = "TokenSemicolon" THEN Ok(newBinds.v, newBinds.p + 1)
  ELSE parseLocalBinds(t, newBinds.p + 1, newBinds.v)))

\* parser.parseObjectAssignmentOp: an optional + followed by 1 to 3 colons.
parseObjectAssignmentOp(t, p) ==
  Then(popExpect(t, p, "TokenOperator"), LAMBDA op :
  LET d == op.v.data
      plusSugar == d \in {"+:", "+::", "+:::"}
  IN  IF d \in {":", "+:"} THEN Ok([plusSugar |-> plusSugar, hide |-> "ObjectFieldInherit"], op.p)
      ELSE IF d \in {"::", "+::"} THEN Ok([plusSugar |-> plusSugar, hide |-> "ObjectFieldHidden"], op.p)
      ELSE IF d \in {":::", "+:::"} THEN Ok([plusSugar |-> plusSugar, hide |-> "ObjectFieldVisible"], op.p)
      ELSE Fail(MakeStaticError("Expected one of :, ::, :::, +:, +::, +:::", op.v.loc), op.p))

\* parseObjectField as it would be without the check of the key against the
\* literal keys seen so far.
parseObjectFieldUnchecked(t, p, headingComments, next, literalFields) ==
  LET kind == CASE next.kind = "TokenIdentifier" -> "ObjectFieldID"
                [] next.kind \in {"TokenStringDouble", "TokenStringSingle", "TokenStringBlock"} -> "ObjectFieldStr"
                [] OTHER -> "ObjectFieldExpr"
      id == IF kind = "ObjectFieldID" THEN Identifier(next.data, next.loc) ELSE Null
      expr1 == IF kind = "ObjectFieldStr"
                 THEN LiteralString(next.data,
                        CASE next.kind = "TokenStringDouble" -> "StringDouble"
                          [] next.kind = "TokenStringSingle" -> "StringSingle"
                          [] OTHER -> "StringBlock",
                        next.loc)
                 ELSE Null
      literals == IF kind # "ObjectFieldExpr" THEN literalFields \cup {next.data} ELSE literalFields
  IN  Then(IF kind # "ObjectFieldExpr" THEN Ok(Null, p)
           ELSE Then(parse(t, p, maxPrecedence, <<>>), LAMBDA keyExpr :
                Then(popExpect(t, keyExpr.p, "TokenBracketR"), LAMBDA keyEnd :
                Ok(Null, keyEnd.p))), LAMBDA key :
      With(Get(t, key.p).kind = "TokenParenL", LAMBDA isMethod :
      Then(IF isMethod THEN parseParamsList(t, key.p + 1)
           ELSE Ok([next |-> Null, exprs |-> <<>>, gotComma |-> FALSE], key.p), LAMBDA params :
      Then(parseObjectAssignmentOp(t, params.p), LAMBDA result :
      IF result.v.plusSugar /\ isMethod
        THEN Fail(MakeStaticError("Cannot use +: syntax sugar in a method", next.loc), result.p)
      ELSE Then(parse(t, result.p, maxPrecedence, <<>>), LAMBDA body :
           Ok([field |-> ObjectField(kind, result.v.hide, result.v.plusSugar, isMethod,
                                     expr1, id, params.v.exprs, FALSE, body.v, Null,
                                     headingComments, locFromTokenAST(next, body.v)),
               literals |-> literals],
              body.p))))))

\* parser.parseObjectField: a field keyed by an identifier, a string or
\* `[expr]`.  next is the key token, already popped; p is the index after it.
parseObjectField(t, p, headingComments, next, literalFields) ==
  LET kind == CASE next.kind = "TokenIdentifier" -> "ObjectFieldID"
                [] next.kind \in {"TokenStringDouble", "TokenStringSingle", "TokenStringBlock"} -> "ObjectFieldStr"
                [] OTHER -> "ObjectFieldExpr"
      id == IF kind = "ObjectFieldID" THEN Identifier(next.data, next.loc) ELSE Null
      \* In the computed-key case the key expression is bound to a
      \* block-local `expr1`; the field's own expr1 stays null.
      expr1 == IF kind = "ObjectFieldStr"
                 THEN LiteralString(next.data,
                        CASE next.kind = "TokenStringDouble" -> "StringDouble"
                          [] next.kind = "TokenStringSingle" -> "StringSingle"
                          [] OTHER -> "StringBlock",
                        next.loc)
                 ELSE Null
      literals == IF kind # "ObjectFieldExpr" THEN literalFields \cup {next.data} ELSE literalFields
  IN  Then(IF kind # "ObjectFieldExpr" THEN Ok(Null, p)
           ELSE Then(parse(t, p, maxPrecedence, <<>>), LAMBDA keyExpr :
                Then(popExpect(t, keyExpr.p, "TokenBracketR"), LAMBDA keyEnd :
                Ok(Null, keyEnd.p))), LAMBDA key :
      With(Get(t, key.p).kind = "TokenParenL", LAMBDA isMethod :
      Then(IF isMethod THEN parseParamsList(t, key.p + 1)
           ELSE Ok([next |-> Null, exprs |-> <<>>, gotComma |-> FALSE], key.p), LAMBDA params :
      Then(parseObjectAssignmentOp(t, params.p), LAMBDA result :
      IF result.v.plusSugar /\ isMethod
        THEN Fail(MakeStaticError("Cannot use +: syntax sugar in a method", next.loc), result.p)
      ELSE IF kind # "ObjectFieldExpr" /\ next.data \in literalFields
        THEN Fail(MakeStaticError("Duplicate field", next.loc), result.p)
      ELSE Then(parse(t, result.p, maxPrecedence, <<>>), LAMBDA body :
           Ok([field |-> ObjectField(kind, result.v.hide, result.v.plusSugar, isMethod,
                                     expr1, id, params.v.exprs, FALSE, body.v, Null,
                                     headingComments, locFromTokenAST(next, body.v)),
               literals |-> literals],
              body.p))))))

\* parser.parseObjectLocal: `local id = body` as an object field.
parseObjectLocal(t, p, localToken, binds) ==
  Then(popExpect(t, p, "TokenIdentifier"), LAMBDA varID :
  IF varID.v.data \in binds
    THEN Fail(MakeStaticError("Duplicate local var", varID.v.loc), varID.p)
  ELSE
  With(Get(t, varID.p).kind = "TokenParenL", LAMBDA isMethod :
  Then(IF isMethod THEN parseParamsList(t, varID.p + 1)
       ELSE Ok([next |-> Null, exprs |-> <<>>, gotComma |-> FALSE], varID.p), LAMBDA params :
  Then(popExpectOp(t, params.p, "="), LAMBDA pop :
  Then(parse(t, pop.p, maxPrecedence, <<>>), LAMBDA body :
  Ok([field |-> ObjectField("ObjectLocal", "ObjectFieldVisible", FALSE, isMethod,
                            Null, Identifier(varID.v.data, varID.v.loc),
                            params.v.exprs, FALSE, body.v, Null, <<>>,
                            locFromTokenAST(localToken, body.v)),
      binds |-> binds \cup {varID.v.data}],
     body.p))))))

\* parser.parseObjectAssert: `assert cond [: msg]` as an object field.
parseObjectAssert(t, p, localToken) ==
  Then(parse(t, p, maxPrecedence, <<>>), LAMBDA cond :
  IF Get(t, cond.p).kind = "TokenOperator" /\ Get(t, cond.p).data = ":"
    THEN Then(parse(t, cond.p + 1, maxPrecedence, <<>>), LAMBDA msg :
         Ok(ObjectField("ObjectAssert", "ObjectFieldVisible", FALSE, FALSE, Null, Null,
                        <<>>, FALSE, cond.v, msg.v, <<>>,
                        locFromTokenAST(localToken, msg.v)), msg.p))
    ELSE Ok(ObjectField("ObjectAssert", "ObjectFieldVisible", FALSE, FALSE, Null, Null,
                        <<>>, FALSE, cond.v, Null, <<>>,
                        locFromTokenAST(localToken, cond.v)), cond.p))

\* The `if` clauses that follow one `for` clause in parseCompSpecs; p is the
\* index of the candidate `if` token.  Yields the specs and the index of
\* the first token that is not an `if` (maybeIf), not yet counted as popped.
parseCompIfs(t, p, specs) ==
  LET maybeIf == Get(t, p)
  IN  IF maybeIf.kind # "TokenIf" THEN Ok(specs, p)
      ELSE Then(parse(t, p + 1, maxPrecedence, <<>>), LAMBDA cond :
           parseCompIfs(t, cond.p,
                        Append(specs, CompSpecIf(cond.v, locFromTokenAST(maybeIf, cond.v)))))

\* parser.parseCompSpecs: `for x in e [if c]* [for ...]* end`.
parseCompSpecs(t, p, end, specs) ==
  Then(popExpect(t, p, "TokenIdentifier"), LAMBDA varID :
  Then(popExpect(t, varID.p, "TokenIn"), LAMBDA pop :
  Then(parse(t, pop.p, maxPrecedence, <<>>), LAMBDA arr :
  Then(parseCompIfs(t, arr.p,
         Append(specs, CompSpecFor(Identifier(varID.v.data, varID.v.loc), arr.v,
                                   locFromTokenAST(varID.v, arr.v)))), LAMBDA ifs :
  With(Get(t, ifs.p), LAMBDA maybeIf :
  IF maybeIf.kind = end THEN Ok([compSpecs |-> ifs.v, maybeIf |-> maybeIf], ifs.p + 1)
  ELSE IF maybeIf.kind # "TokenFor"
    THEN Fail(MakeStaticError("Expected for, if or end after for clause", maybeIf.loc), ifs.p + 1)
  ELSE parseCompSpecs(t, ifs.p + 1, end, ifs.v))))))

\* parser.parseObjectCompRemainder: called right after the `for` token.
parseObjectCompRemainder(t, p, first, forTok, gotComma, fields) ==
  LET numAsserts == Cardinality({i \in 1..Len(fields) : fields[i].kind = "ObjectAssert"})
      numFields  == Cardinality({i \in 1..Len(fields) : fields[i].kind \notin {"ObjectLocal", "ObjectAssert"}})
      \* After the counting loop `field` is the last element of the list.
      field  == fields[Len(fields)]
  IN  IF numAsserts > 0
        THEN Fail(MakeStaticError("Object comprehension cannot have asserts", forTok.loc), p)
      ELSE IF numFields # 1
        THEN Fail(MakeStaticError("Object comprehension can only have one field", forTok.loc), p)
      ELSE IF field.hide # "ObjectFieldInherit"
        THEN Fail(MakeStaticError("Object comprehensions cannot have hidden fields", forTok.loc), p)
      ELSE IF field.kind # "ObjectFieldExpr"
        THEN Fail(MakeStaticError("Object comprehensions can only have [e] fields", forTok.loc), p)
      ELSE Then(parseCompSpecs(t, p, "TokenBraceR", <<>>), LAMBDA result :
           Ok([objRemainder |-> ObjectComp(fields, gotComma, result.v.compSpecs,
                                           locFromTokens(first, result.v.maybeIf)),
               next |-> result.v.maybeIf],
              result.p))

\* The field loop of parser.parseObjectRemainder.
parseObjectLoop(t, p, tok, heading, fields, literalFields, binds, gotComma, first) ==
  With(parseOptionalComments(t, p), LAMBDA c1 :
  With(~gotComma /\ ~first /\ Get(t, c1.p).kind = "TokenComma", LAMBDA takeComma :
  With(IF takeComma THEN c1.p + 1 ELSE c1.p, LAMBDA p1 :
  With(gotComma \/ takeComma, LAMBDA gc :
  With(IF Get(t, p1).kind = "TokenCommentCpp"
         THEN parseOptionalComments(t, p1)
         ELSE [comments |-> c1.comments, p |-> p1], LAMBDA c2 :
  With(Get(t, c2.p), LAMBDA next :
  With(c2.p + 1, LAMBDA p2 :
  IF next.kind = "TokenBraceR"
    THEN Ok([objRemainder |-> ObjectNode(fields, gc, heading, locFromTokens(tok, next)),
             next |-> next], p2)
  ELSE IF next.kind = "TokenFor"
    THEN parseObjectCompRemainder(t, p2, tok, next, gc, fields)
  ELSE IF ~gc /\ ~first
    THEN Fail(MakeStaticError("Expected a comma before next field", next.loc), p2)
  ELSE IF next.kind \in {"TokenBracketL", "TokenIdentifier", "TokenStringDouble",
                         "TokenStringSingle", "TokenStringBlock"}
    THEN Then(parseObjectField(t, p2, c2.comments, next, literalFields), LAMBDA fld :
         parseObjectLoop(t, fld.p, tok, heading, Append(fields, fld.v.field),
                         fld.v.literals, binds, FALSE, FALSE))
  ELSE IF next.kind = "TokenLocal"
    THEN Then(parseObjectLocal(t, p2, next, binds), LAMBDA loc :
         parseObjectLoop(t, loc.p, tok, heading, Append(fields, loc.v.field),
                         literalFields, loc.v.binds, FALSE, FALSE))
  ELSE IF next.kind = "TokenAssert"
    THEN Then(parseObjectAssert(t, p2, next), LAMBDA asr :
         parseObjectLoop(t, asr.p, tok, heading, Append(fields, asr.v),
                         literalFields, binds, FALSE, FALSE))
  ELSE Fail(makeUnexpectedError(next, "parsing field definition"), p2))))))))

\* parser.parseObjectRemainder: the rest of an object after its `{` (tok).
parseObjectRemainder(t, p, tok, heading) ==
  parseObjectLoop(t, p, tok, heading, <<>>, {}, {}, FALSE, TRUE)

\* The element loop of parser.parseArrayRemainder.  next is the token the
\* code last peeked: the one after the comma if there was one, which is not
\* peeked again after the comments that follow the comma are dropped.
parseArrayLoop(t, p, tok, elements, gotComma, next) ==
  IF next.kind = "TokenBracketR"
    THEN Ok(Array(elements, gotComma, locFromTokens(tok, next)), p + 1)
  ELSE IF ~gotComma
    THEN Fail(MakeStaticError("Expected a comma before next array element", next.loc), p)
  ELSE Then(parse(t, p, maxPrecedence, <<>>), LAMBDA nextElem :
       With(parseOptionalComments(t, nextElem.p), LAMBDA c1 :
       With(Get(t, c1.p).kind = "TokenComma", LAMBDA comma :
       With(IF comma THEN c1.p + 1 ELSE c1.p, LAMBDA p1 :
       With(parseOptionalComments(t, p1), LAMBDA c2 :
       parseArrayLoop(t, c2.p, tok, Append(elements, nextElem.v), comma, Get(t, p1)))))))

\* parser.parseArrayRemainder: the rest of an array after its `[` (tok).
parseArrayRemainder(t, p, tok) ==
  IF Get(t, p).kind = "TokenBracketR"
    THEN Ok(Array(<<>>, FALSE, locFromTokens(tok, Get(t, p))), p + 1)
  ELSE Then(parse(t, p, maxPrecedence, <<>>), LAMBDA first :
       With(Get(t, first.p).kind = "TokenComma", LAMBDA gotComma :
       With(IF gotComma THEN first.p + 1 ELSE first.p, LAMBDA p1 :
       With(Get(t, p1), LAMBDA next :
       IF next.kind = "TokenFor"
         THEN Then(parseCompSpecs(t, p1 + 1, "TokenBracketR", <<>>), LAMBDA result :
              Ok(ArrayComp(first.v, gotComma, result.v.compSpecs,
                           locFromTokens(tok, result.v.maybeIf)), result.p))
       ELSE parseArrayLoop(t, p1, tok, <<first.v>>, gotComma, next)))))

\* parser.parseTerminal.
parseTerminal(t, p, heading) ==
  LET tok == Get(t, p)
      k == tok.kind
      \* TokenSuper
      next == Get(t, p + 1)
  IN  CASE k \in {"TokenAssert", "TokenBraceR", "TokenBracketR", "TokenComma", "TokenDot",
                  "TokenElse", "TokenError", "TokenFor", "TokenFunction", "TokenIf",
                  "TokenIn", "TokenImport", "TokenImportStr", "TokenLocal", "TokenOperator",
                  "TokenParenR", "TokenSemicolon", "TokenTailStrict", "TokenThen"} ->
             Fail(makeUnexpectedError(tok, "parsing terminal"), p + 1)
        [] k = "TokenEndOfFile" -> Fail(MakeStaticError("Unexpected end of file", tok.loc), p + 1)
        [] k = "TokenBraceL" ->
             Then(parseObjectRemainder(t, p + 1, tok, heading), LAMBDA obj :
             Ok(obj.v.objRemainder, obj.p))
        [] k = "TokenBracketL" -> parseArrayRemainder(t, p + 1, tok)
        [] k = "TokenParenL" ->
             Then(parse(t, p + 1, maxPrecedence, <<>>), LAMBDA inner :
             Then(popExpect(t, inner.p, "TokenParenR"), LAMBDA close :
             Ok(inner.v, close.p)))
        [] k = "TokenNumber" -> Ok(LiteralNumber(tok.data, tok.loc), p + 1)
        [] k = "TokenStringSingle" -> Ok(LiteralString(tok.data, "StringSingle", tok.loc), p + 1)
        [] k = "TokenStringDouble" -> Ok(LiteralString(tok.data, "StringDouble", tok.loc), p + 1)
        [] k = "TokenStringBlock" -> Ok(LiteralString(tok.data, "StringBlock", tok.loc), p + 1)
        [] k = "TokenFalse" -> Ok(LiteralBoolean(FALSE, tok.loc), p + 1)
        [] k = "TokenTrue" -> Ok(LiteralBoolean(TRUE, tok.loc), p + 1)
        [] k = "TokenNullLit" -> Ok(LiteralNull(tok.loc), p + 1)
        [] k = "TokenDollar" -> Ok(Dollar(tok.loc), p + 1)
        [] k = "TokenIdentifier" -> Ok(Var(Identifier(tok.data, tok.loc), tok.loc), p + 1)
        [] k = "TokenSelf" -> Ok(Self(tok.loc), p + 1)
        [] k = "TokenSuper" ->
             IF next.kind = "TokenDot"
               THEN Then(popExpect(t, p + 2, "TokenIdentifier"), LAMBDA fieldID :
                    Ok(SuperIndex(Null, Identifier(fieldID.v.data, fieldID.v.loc), tok.loc), fieldID.p))
             ELSE IF next.kind = "TokenBracketL"
               THEN Then(parse(t, p + 2, maxPrecedence, <<>>), LAMBDA index :
                    Then(popExpect(t, index.p, "TokenBracketR"), LAMBDA indexEnd :
                    Ok(SuperIndex(index.v, Null, tok.loc), indexEnd.p)))
             ELSE Fail(MakeStaticError("Expected . or [ after super", tok.loc), p + 2)
        [] OTHER -> Fail(MakeStaticError("INTERNAL ERROR: Unknown tok kind", tok.loc), p + 1)

\* The loop as it would be if the error of a `.` without an identifier
\* were returned as popExpect made it, without the operand before the dot.
parseLoopDiscardingLhs(t, p, prec, begin, heading, lhs) ==
  LET pk == Get(t, p)
      bop == BopMap[pk.data]
  IN  IF pk.kind = "TokenOperator"
        THEN IF pk.data = ":" \/ pk.data = "=" THEN Ok(lhs, p)
             ELSE IF pk.data \notin DOMAIN BopMap
               THEN Fail(MakeStaticError("Not a binary operator", pk.loc), p)
             ELSE IF bopPrecedence[bop] # prec THEN Ok(lhs, p)
             ELSE Then(parse(t, p + 1, prec - 1, <<>>), LAMBDA rhs :
                  parseLoop(t, rhs.p, prec, begin, heading,
                            Binary(lhs, bop, rhs.v, locFromTokenAST(begin, rhs.v))))
      ELSE IF pk.kind \in {"TokenDot", "TokenBracketL", "TokenParenL", "TokenBraceL"}
        THEN IF applyPrecedence # prec THEN Ok(lhs, p)
             ELSE IF pk.kind = "TokenBracketL"
               THEN Then(parse(t, p + 1, maxPrecedence, <<>>), LAMBDA index :
                    Then(popExpect(t, index.p, "TokenBracketR"), LAMBDA end :
                    parseLoop(t, end.p, prec, begin, heading,
                              Index(lhs, index.v, Null, locFromTokens(begin, end.v)))))
             ELSE IF pk.kind = "TokenDot"
               THEN Then(popExpect(t, p + 1, "TokenIdentifier"), LAMBDA fieldID :
                    parseLoop(t, fieldID.p, prec, begin, heading,
                              Index(lhs, Null, Identifier(fieldID.v.data, fieldID.v.loc),
                                    locFromTokens(begin, fieldID.v))))
             ELSE IF pk.kind = "TokenParenL"
               THEN Then(parseArgsList(t, p + 1), LAMBDA args :
                    With(Get(t, args.p).kind = "TokenTailStrict", LAMBDA tailStrict :
                    parseLoop(t, IF tailStrict THEN args.p + 1 ELSE args.p, prec, begin, heading,
                              Apply(lhs, args.v.exprs, args.v.gotComma, tailStrict,
                                    locFromTokens(begin, args.v.next)))))
             ELSE Then(parseObjectRemainder(t, p + 1, pk, heading), LAMBDA obj :
                  parseLoop(t, obj.p, prec, begin, heading,
                            ApplyBrace(lhs, obj.v.objRemainder, locFromTokens(begin, obj.v.next))))
      ELSE Ok(lhs, p)

\* The operator / postfix loop of the default case of parser.parse.  begin
\* is the first token of the expression, lhs the operand parsed so far.
parseLoop(t, p, prec, begin, heading, lhs) ==
  LET pk == Get(t, p)
      bop == BopMap[pk.data]
  IN  IF pk.kind = "TokenOperator"
        THEN IF pk.data = ":" \/ pk.data = "=" THEN Ok(lhs, p)
             ELSE IF pk.data \notin DOMAIN BopMap
               THEN Fail(MakeStaticError("Not a binary operator", pk.loc), p)
             ELSE IF bopPrecedence[bop] # prec THEN Ok(lhs, p)
             ELSE Then(parse(t, p + 1, prec - 1, <<>>), LAMBDA rhs :
                  parseLoop(t, rhs.p, prec, begin, heading,
                            Binary(lhs, bop, rhs.v, locFromTokenAST(begin, rhs.v))))
      ELSE IF pk.kind \in {"TokenDot", "TokenBracketL", "TokenParenL", "TokenBraceL"}
        THEN IF applyPrecedence # prec THEN Ok(lhs, p)
             ELSE IF pk.kind = "TokenBracketL"
               THEN Then(parse(t, p + 1, maxPrecedence, <<>>), LAMBDA index :
                    Then(popExpect(t, index.p, "TokenBracketR"), LAMBDA end :
                    parseLoop(t, end.p, prec, begin, heading,
                              Index(lhs, index.v, Null, locFromTokens(begin, end.v)))))
             ELSE IF pk.kind = "TokenDot"
               THEN With(popExpect(t, p + 1, "TokenIdentifier"), LAMBDA fieldID :
                    IF ~fieldID.ok
                      THEN Fail(MakeStaticErrorRest(lhs, fieldID.err.msg, fieldID.err.loc), fieldID.p)
                      ELSE parseLoop(t, fieldID.p, prec, begin, heading,
                                     Index(lhs, Null, Identifier(fieldID.v.data, fieldID.v.loc),
                                           locFromTokens(begin, fieldID.v))))
             ELSE IF pk.kind = "TokenParenL"
               THEN Then(parseArgsList(t, p + 1), LAMBDA args :
                    With(Get(t, args.p).kind = "TokenTailStrict", LAMBDA tailStrict :
                    parseLoop(t, IF tailStrict THEN args.p + 1 ELSE args.p, prec, begin, heading,
                              Apply(lhs, args.v.exprs, args.v.gotComma, tailStrict,
                                    locFromTokens(begin, args.v.next)))))
             ELSE Then(parseObjectRemainder(t, p + 1, pk, heading), LAMBDA obj :
                  parseLoop(t, obj.p, prec, begin, heading,
                            ApplyBrace(lhs, obj.v.objRemainder, locFromTokens(begin, obj.v.next))))
      ELSE Ok(lhs, p)

\* The levels run from the loosest to the tightest: the descent as it would
\* be if each level handed its result to the next-tighter level.
RECURSIVE parseLevelsDown(_, _, _, _, _, _)
parseLevelsDown(t, r, level, prec, begin, heading) ==
  IF level > prec \/ ~r.ok THEN r
  ELSE parseLevelsDown(t, parseLoop(t, r.p, prec, begin, heading, r.v),
                       level, prec - 1, begin, heading)

\* The descent of the default case of parser.parse through the precedence
\* levels, read from the bottom: parse(prec) calls parse(prec - 1) on the
\* same token, returns its error unchanged and otherwise runs its own
\* operator loop on the result.  r is the result of level - 1; the levels
\* level .. prec are still to run.
parseLevels(t, r, level, prec, begin, heading) ==
  IF level > prec \/ ~r.ok THEN r
  ELSE parseLevels(t, parseLoop(t, r.p, level, begin, heading, r.v),
                   level + 1, prec, begin, heading)

\* parser.parse: the main parsing routine.  In the default case the token
\* at p is the same on every level of the descent: an operator that is not
\* unary fails on the first level, a unary operator is consumed on level
\* unaryPrecedence (or reaches parseTerminal when prec is below it), any
\* other token reaches parseTerminal on level 0.
parse(t, p0, prec, heading0) ==
  With(parseOptionalComments(t, p0), LAMBDA cs :
  LET p == cs.p
      heading == IF Get(t, p0).kind = "TokenCommentCpp" THEN cs.comments ELSE heading0
      begin == Get(t, p)
      k == begin.kind
  IN  CASE k = "TokenAssert" ->
             Then(parse(t, p + 1, maxPrecedence, <<>>), LAMBDA cond :
             Then(IF Get(t, cond.p).kind = "TokenOperator" /\ Get(t, cond.p).data = ":"
                    THEN parse(t, cond.p + 1, maxPrecedence, <<>>)
                    ELSE Ok(Null, cond.p), LAMBDA msg :
             Then(popExpect(t, msg.p, "TokenSemicolon"), LAMBDA semi :
             Then(parse(t, semi.p, maxPrecedence, <<>>), LAMBDA rest :
             Ok(makeAssert(cond.v, msg.v, rest.v, locFromTokenAST(begin, rest.v)), rest.p)))))
        [] k = "TokenError" ->
             Then(parse(t, p + 1, maxPrecedence, <<>>), LAMBDA body :
             Ok(ErrorNode(body.v, locFromTokenAST(begin, body.v)), body.p))
        [] k = "TokenIf" ->
             Then(parse(t, p + 1, maxPrecedence, <<>>), LAMBDA cond :
             Then(popExpect(t, cond.p, "TokenThen"), LAMBDA then :
             Then(parse(t, then.p, maxPrecedence, <<>>), LAMBDA branchTrue :
             IF Get(t, branchTrue.p).kind = "TokenElse"
               THEN Then(parse(t, branchTrue.p + 1, maxPrecedence, <<>>), LAMBDA branchFalse :
                    \* The else branch is bound to a block-local `branchFalse`;
                    \* the node is built from the outer one, which stays null.
                    Ok(Conditional(cond.v, branchTrue.v, Null,
                                   locFromTokenAST(begin, branchFalse.v)), branchFalse.p))
               ELSE Ok(Conditional(cond.v, branchTrue.v, Null,
                                   locFromTokenAST(begin, branchTrue.v)), branchTrue.p))))
        [] k = "TokenFunction" ->
             IF Get(t, p + 1).kind # "TokenParenL"
               THEN Fail(MakeStaticError("Expected ( but got", Get(t, p + 1).loc), p + 2)
             ELSE Then(parseParamsList(t, p + 2), LAMBDA params :
                  Then(parse(t, params.p, maxPrecedence, <<>>), LAMBDA body :
                  Ok(Function(params.v.exprs, params.v.gotComma, body.v,
                              locFromTokenAST(begin, body.v)), body.p)))
        [] k = "TokenImport" ->
             Then(parse(t, p + 1, maxPrecedence, <<>>), LAMBDA body :
             IF isLiteralString(body.v)
               THEN Ok(Import(body.v.value, locFromTokenAST(begin, body.v)), body.p)
               ELSE Fail(MakeStaticError("Computed imports are not allowed", body.v.loc), body.p))
        [] k = "TokenImportStr" ->
             Then(parse(t, p + 1, maxPrecedence, <<>>), LAMBDA body :
             IF isLiteralString(body.v)
               THEN Ok(ImportStr(body.v.value, locFromTokenAST(begin, body.v)), body.p)
               ELSE Fail(MakeStaticError("Computed imports are not allowed", body.v.loc), body.p))
        [] k = "TokenLocal" ->
             Then(parseLocalBinds(t, p + 1, <<>>), LAMBDA binds :
             Then(parse(t, binds.p, maxPrecedence, <<>>), LAMBDA body :
             Ok(Local(binds.v, body.v, locFromTokenAST(begin, body.v)), body.p)))
        [] OTHER ->
             IF k = "TokenOperator" /\ begin.data \notin DOMAIN UopMap
               THEN Fail(MakeStaticError("Not a unary operator", begin.loc), p)
             ELSE IF k = "TokenOperator" /\ prec >= unaryPrecedence
               THEN parseLevels(t,
                      Then(parse(t, p + 1, unaryPrecedence, <<>>), LAMBDA expr :
                      Ok(Unary(UopMap[begin.data], expr.v, locFromTokenAST(begin, expr.v)), expr.p)),
                      unaryPrecedence + 1, prec, begin, heading)
             ELSE parseLevels(t, parseTerminal(t, p, heading), 1, prec, begin, heading))

\* ---------------------------------------------------------------------
\* Lexer.  The text of a document is a sequence of lexemes, one column
\* each; "Bad" stands for a character no token starts with.

\* Location of the lexeme in column i: columns i .. i+1.
TokenLoc(i) == MakeLocationRange(i, i + 1)

\* lexer.Lex: the tokens of the text followed by the end-of-file token, or
\* a lex error at the first bad character.
Lex(text) ==
  IF \E i \in 1..Len(text) : text[i].kind = "Bad"
    THEN LET i == CHOOSE j \in 1..Len(text) :
                    /\ text[j].kind = "Bad"
                    /\ \A k \in 1..(j - 1) : text[k].kind # "Bad"
         IN  Fail(MakeStaticError("Could not lex the character", TokenLoc(i)), i)
    ELSE Ok([i \in 1..(Len(text) + 1) |->
               IF i <= Len(text)
                 THEN [kind |-> text[i].kind, data |-> text[i].data, loc |-> TokenLoc(i)]
                 ELSE [kind |-> "TokenEndOfFile", data |-> "", loc |-> TokenLoc(i)]],
            Len(text) + 1)

\* ---------------------------------------------------------------------
\* Tree structure: children, paths and environments.  A node is identified
\* inside its tree by its path, the sequence of child indexes from the root.

\* The elements of a sequence that are not null.
RECURSIVE NonNull(_)
NonNull(seq) ==
  IF Len(seq) = 0 THEN <<>>
  ELSE IF IsNull(seq[1]) THEN NonNull(Tail(seq))
  ELSE <<seq[1]>> \o NonNull(Tail(seq))

\* The children the visitors descend into, in visiting order.
Kids(n) ==
  CASE n.type = "VarNode" -> <<n.id>>
    [] n.type = "BinaryNode" -> <<n.left, n.right>>
    [] n.type = "UnaryNode" -> <<n.expr>>
    [] n.type = "IndexNode" -> NonNull(<<n.target, n.index, n.id>>)
    [] n.type = "SuperIndexNode" -> NonNull(<<n.index, n.id>>)
    [] n.type = "ApplyNode" -> <<n.target>> \o n.args
    [] n.type = "ApplyParamAssignmentNode" -> <<n.right>>
    [] n.type = "ApplyBraceNode" -> <<n.left, n.right>>
    [] n.type = "ArrayNode" -> n.elements
    [] n.type = "ArrayCompNode" -> n.specs \o <<n.body>>
    [] n.type = "CompSpecNode" -> NonNull(<<n.varName, n.expr>>)
    [] n.type = "AssertNode" -> NonNull(<<n.cond, n.message, n.rest>>)
    [] n.type = "ErrorNode" -> <<n.expr>>
    [] n.type = "ConditionalNode" -> NonNull(<<n.cond, n.branchTrue, n.branchFalse>>)
    [] n.type = "FunctionNode" -> n.parameters \o <<n.body>>
    [] n.type = "FunctionParamNode" -> NonNull(<<n.defaultValue>>)
    [] n.type = "LocalNode" -> n.binds \o <<n.body>>
    [] n.type = "LocalBindNode" -> <<n.variable>> \o n.params \o <<n.body>>
    [] n.type = "ObjectFieldNode" -> NonNull(<<n.id, n.expr1>>) \o n.ids \o NonNull(<<n.expr2, n.expr3>>)
    [] n.type = "ObjectNode" -> n.fields
    [] n.type = "ObjectCompNode" -> n.specs \o n.fields
    [] OTHER -> <<>>

\* The paths of all nodes of the tree rooted at n.
RECURSIVE Paths(_)
Paths(n) ==
  {<<>>} \cup UNION {{<<i>> \o q : q \in Paths(Kids(n)[i])} : i \in 1..Len(Kids(n))}

\* The node at a path of the tree rooted at n.
RECURSIVE NodeAt(_, _)
NodeAt(n, path) ==
  IF Len(path) = 0 THEN n ELSE NodeAt(Kids(n)[path[1]], Tail(path))

\* A reference to a node: the tree that holds it and its path there.
\* tree is "none" (no node), "self" (the tree the reference is stored in)
\* or "last" (the tree of the last successful parse).
NodeRef(tree, path) == [tree |-> tree, path |-> path]

NoNode == NodeRef("none", <<>>)

\* A binding site held by an environment: the LocalBind ("bind"), the
\* FunctionParam ("param"), the `local` object field ("field") or the
\* comprehension variable ("spec") at the path.
BindRef(tree, path, kind) == [tree |-> tree, path |-> path, kind |-> kind]

\* ast.Environment: a map from names to binding sites.
emptyEnvironment == [x \in {} |-> NoNode]

\* Environment.merge: the bindings of inner shadow those of outer.
envMerge(outer, inner) ==
  [x \in DOMAIN outer \cup DOMAIN inner |-> IF x \in DOMAIN inner THEN inner[x] ELSE outer[x]]

\* The last index of seq whose name (by nameOf) is x, among the indexes in idx.
LastNamed(idx, nameOf(_), x) ==
  CHOOSE i \in idx : nameOf(i) = x /\ \A j \in idx : j > i => nameOf(j) # x

\* environmentFromLocal: the binds of the local node at path `at`; a later
\* bind of the same name overwrites an earlier one.
environmentFromLocal(local, at) ==
  LET idx == 1..Len(local.binds)
      nameOf(i) == local.binds[i].variable.name
  IN  [x \in {nameOf(i) : i \in idx} |->
         BindRef("self", at \o <<LastNamed(idx, nameOf, x)>>, "bind")]

\* The environment made of function parameters; parameter i is child
\* offset + i of the node at path `at`.
envFromParams(params, at, offset) ==
  LET idx == 1..Len(params)
      nameOf(i) == params[i].id
  IN  [x \in {nameOf(i) : i \in idx} |->
         BindRef("self", at \o <<offset + LastNamed(idx, nameOf, x)>>, "param")]

\* The environment made of the `local` fields of the object at path `at`:
\* each behaves as the bind `id = expr2`.
envFromFields(fields, at) ==
  LET idx == {i \in 1..Len(fields) : fields[i].kind = "ObjectLocal"}
      nameOf(i) == fields[i].id.name
  IN  [x \in {nameOf(i) : i \in idx} |->
         BindRef("self", at \o <<LastNamed(idx, nameOf, x)>>, "field")]

\* The loop variables bound by the first k comprehension specs of the
\* comprehension at path `at`.
envFromSpecs(specs, k, at) ==
  LET idx == {i \in 1..k : specs[i].kind = "CompFor"}
      nameOf(i) == specs[i].varName.name
  IN  [x \in {nameOf(i) : i \in idx} |->
         BindRef("self", at \o <<LastNamed(idx, nameOf, x)>>, "spec")]

\* The environment the annotation visitor hands to child i of node n, which
\* is at path `at` and whose own environment is env.
ChildEnv(n, i, env, at) ==
  CASE n.type = "LocalNode" -> envMerge(env, environmentFromLocal(n, at))
    [] n.type = "LocalBindNode" ->
         IF n.functionSugar /\ i > 1 THEN envMerge(env, envFromParams(n.params, at, 1)) ELSE env
    [] n.type = "FunctionNode" -> envMerge(env, envFromParams(n.parameters, at, 0))
    [] n.type = "ObjectNode" -> envMerge(env, envFromFields(n.fields, at))
    [] n.type = "ObjectFieldNode" ->
         IF n.methodSugar /\ i > Len(NonNull(<<n.id, n.expr1>>))
           THEN envMerge(env, envFromParams(n.ids, at, Len(NonNull(<<n.id, n.expr1>>))))
           ELSE env
    [] n.type = "ArrayCompNode" ->
         envMerge(env, envFromSpecs(n.specs, IF i <= Len(n.specs) THEN i ELSE Len(n.specs), at))
    [] n.type = "ObjectCompNode" ->
         envMerge(envMerge(env, envFromFields(n.fields, at)),
                  envFromSpecs(n.specs, IF i <= Len(n.specs) THEN i ELSE Len(n.specs), at))
    [] OTHER -> env

\* The environment of the node at path `at \o path` when the node n at path
\* `at` is visited with env.
RECURSIVE EnvAt(_, _, _, _)
EnvAt(n, path, env, at) ==
  IF Len(path) = 0 THEN env
  ELSE EnvAt(Kids(n)[path[1]], Tail(path), ChildEnv(n, path[1], env, at), at \o <<path[1]>>)

\* The path without its last element.
Front(path) == SubSeq(path, 1, Len(path) - 1)

\* InitializingVisitor(root, parent, env).visit(): sets parent and env of
\* every node of the tree.  old is the annotation table before the visit;
\* writes counts the assignments a node has received.
InitializingVisitor(root, parent, env, old) ==
  [path \in Paths(root) |->
     [parent |-> IF Len(path) = 0 THEN parent ELSE NodeRef("self", Front(path)),
      env    |-> EnvAt(root, path, env, <<>>),
      writes |-> IF path \in DOMAIN old THEN old[path].writes + 1 ELSE 1]]

\* The annotation table of a tree no visitor has seen: parent and env are
\* null on every node.
NoAnnotations == [path \in {} |-> Null]

\* A result of Parse: the result of the parser and the annotations the
\* InitializingVisitor has left on the tree handed out.
Parsed(r, ann) == [ok |-> r.ok, v |-> r.v, err |-> r.err, p |-> r.p, ann |-> ann]

\* Parse as it would be if the recovered tree of a parse error went through
\* the InitializingVisitor as well before Parse returns.
ParseAnnotatingRest(t) ==
  With(parse(t, 1, maxPrecedence, <<>>), LAMBDA expr :
  IF ~expr.ok
    THEN Parsed(expr, IF IsNull(expr.err.rest) THEN NoAnnotations
                      ELSE InitializingVisitor(expr.err.rest, NoNode, emptyEnvironment,
                                               NoAnnotations))
  ELSE
  With(parseOptionalComments(t, expr.p).p, LAMBDA after :
  IF Get(t, after).kind # "TokenEndOfFile"
    THEN Parsed(Fail(MakeStaticError("Did not expect", Get(t, after).loc), after),
                NoAnnotations)
  ELSE Parsed(Ok(expr.v, after),
              InitializingVisitor(expr.v, NoNode, emptyEnvironment, NoAnnotations))))

\* Parse: the entry point.  The InitializingVisitor runs over the root of a
\* successful parse only; a parse error is returned as the parser built it,
\* the visitor has not seen its `rest` tree.
Parse(t) ==
  With(parse(t, 1, maxPrecedence, <<>>), LAMBDA expr :
  IF ~expr.ok THEN Parsed(expr, NoAnnotations)
  ELSE
  With(parseOptionalComments(t, expr.p).p, LAMBDA after :
  IF Get(t, after).kind # "TokenEndOfFile"
    THEN Parsed(Fail(MakeStaticError("Did not expect", Get(t, after).loc), after),
                NoAnnotations)
  ELSE Parsed(Ok(expr.v, after),
              InitializingVisitor(expr.v, NoNode, emptyEnvironment, NoAnnotations))))

\* ---------------------------------------------------------------------
\* Compiler service (cache of parses, one document).

\* No cached document.
NoDoc == [kind |-> "none", version |-> 0, text |-> <<>>, root |-> Null,
          err |-> Null, ann |-> NoAnnotations]

\* Lexes and parses a text into a ParsedDocument (kind "ok", the annotated
\* root) or a FailedParsedDocument (kind "lexFailure" or "parseFailure").
\* ann holds the annotations of the root or, for a parse failure, of the
\* `rest` tree of the error.
ParseDocument(text, version) ==
  With(Lex(text), LAMBDA lexed :
  IF ~lexed.ok
    THEN [kind |-> "lexFailure", version |-> version, text |-> text, root |-> Null,
          err |-> lexed.err, ann |-> NoAnnotations]
  ELSE
  With(Parse(lexed.v), LAMBDA parsed :
  IF ~parsed.ok
    THEN [kind |-> "parseFailure", version |-> version, text |-> text, root |-> Null,
          err |-> parsed.err, ann |-> parsed.ann]
  ELSE [kind |-> "ok", version |-> version, text |-> text, root |-> parsed.v,
        err |-> Null, ann |-> parsed.ann]))

\* CompilerService.cache: the cached parse when the version is the cached
\* one, a fresh parse otherwise.
Cache(cached, text, version) ==
  IF cached.kind # "none" /\ cached.version = version
    THEN cached
    ELSE ParseDocument(text, version)

\* ---------------------------------------------------------------------
\* Cursor locator.

\* error.Location: a line and a column, both 1-based.
Location(line, column) == [line |-> line, column |-> column]

\* Location.inRange: the position lies in the range, both ends included.
\* Every range of the model is on line 1.
inRange(pos, loc) == pos.line = 1 /\ loc.b <= pos.column /\ pos.column <= loc.e

\* LocationRange.rangeIsTighter: range a lies within range b.
rangeIsTighter(a, b) == b.b <= a.b /\ a.e <= b.e

\* The paths of the tree rooted at n (itself at path `at`) in the order the
\* visitors reach them: a node before its children, children left to right.
RECURSIVE PreOrder(_, _)
RECURSIVE PreOrderKids(_, _, _)
PreOrder(n, at) == <<at>> \o PreOrderKids(n, at, 1)

PreOrderKids(n, at, i) ==
  IF i > Len(Kids(n)) THEN <<>>
  ELSE PreOrder(Kids(n)[i], at \o <<i>>) \o PreOrderKids(n, at, i + 1)

\* CursorVisitor.previsit of the node at path `at`: v.enc is the tightest
\* node containing the cursor so far, v.term the node ending last on the
\* cursor's line so far (NoNode when there is none yet).
CursorStep(root, pos, at, v) ==
  With(NodeAt(root, at), LAMBDA n :
  LET here == NodeRef("self", at)
      hasLoc == "loc" \in DOMAIN n
      tighter == v.enc = NoNode \/ rangeIsTighter(n.loc, NodeAt(root, v.enc.path).loc)
      later == v.term = NoNode \/ n.loc.e >= NodeAt(root, v.term.path).loc.e
  IN  [enc |-> IF hasLoc /\ inRange(pos, n.loc) /\ tighter THEN here ELSE v.enc,
       term |-> IF hasLoc /\ pos.line = 1 /\ later THEN here ELSE v.term])

\* The previsits of the nodes order[lo..hi], in order, starting from v.
\* The range is visited in two halves, which keeps the evaluation shallow.
RECURSIVE CursorVisit(_, _, _, _, _, _)
CursorVisit(root, pos, order, lo, hi, v) ==
  IF lo > hi THEN v
  ELSE IF lo = hi THEN CursorStep(root, pos, order[lo], v)
  ELSE CHOOSE r \in {CursorVisit(root, pos, order, (lo + hi) \div 2 + 1, hi, w) :
                       w \in {CursorVisit(root, pos, order, lo, (lo + hi) \div 2, v)}} : TRUE

\* A located node, or a FindFailure: kind is "Found", or the kind of the
\* failure; an analyzable failure carries the tightest enclosing node and
\* the terminal node on the cursor's line.
FindResult(kind, node, tightest, terminal) ==
  [kind |-> kind, node |-> node, tightestEnclosingNode |-> tightest,
   terminalNodeOnCursorLine |-> terminal]

isAnalyzableFindFailure(f) == f.kind \in {"NotIdentifier", "AfterLineEnd"}

isUnanalyzableFindFailure(f) == f.kind \in {"BeforeDocStart", "AfterDocEnd"}

isFindFailure(f) == isAnalyzableFindFailure(f) \/ isUnanalyzableFindFailure(f)

\* CursorVisitor(pos, root).visit() followed by nodeAtPosition.
CursorVisitor(pos, root) ==
  With(PreOrder(root, <<>>), LAMBDA order :
  With(CursorVisit(root, pos, order, 1, Len(order), [enc |-> NoNode, term |-> NoNode]),
       LAMBDA v :
  IF v.enc = NoNode
    THEN FindResult(IF pos.line = 1 /\ pos.column < root.loc.b THEN "BeforeDocStart"
                    ELSE "AfterDocEnd", NoNode, NoNode, v.term)
  ELSE IF NodeAt(root, v.enc.path).type # "IdentifierNode"
    THEN FindResult(IF v.term # NoNode /\ pos.column > NodeAt(root, v.term.path).loc.e
                      THEN "AfterLineEnd" ELSE "NotIdentifier",
                    NoNode, v.enc, v.term)
  ELSE FindResult("Found", v.enc, NoNode, NoNode)))

\* The locator queried with the requested position as it is.
getNodeAtPositionFromAstUnclamped(rootNode, pos) == CursorVisitor(pos, rootNode)

\* Analyzer.getNodeAtPositionFromAst: a cursor beyond the end of the tree is
\* moved to the end of the tree.
getNodeAtPositionFromAst(rootNode, pos) ==
  LET endLoc == Location(1, rootNode.loc.e)
      clamped == IF endLoc.line < pos.line
                    \/ (endLoc.line = pos.line /\ endLoc.column < pos.column)
                   THEN endLoc ELSE pos
  IN  CursorVisitor(clamped, rootNode)

\* ---------------------------------------------------------------------
\* Symbol resolution.  The analyzer works on two trees: the tree of the
\* request ("cur": the root of the current parse, or the `rest` of the
\* current parse error) and the tree of the last successful parse ("last").
\* ctx holds both trees with their annotation tables.

Context(cur, curAnn, last, lastAnn) ==
  [cur |-> cur, curAnn |-> curAnn, last |-> last, lastAnn |-> lastAnn]

\* A node of one of the two trees.
Handle(doc, path) == [doc |-> doc, path |-> path]

NoHandle == Handle("none", <<>>)

HNode(ctx, h) == NodeAt(IF h.doc = "cur" THEN ctx.cur ELSE ctx.last, h.path)

HTable(ctx, h) == IF h.doc = "cur" THEN ctx.curAnn ELSE ctx.lastAnn

\* node.env != null
HasEnv(ctx, h) == h.path \in DOMAIN HTable(ctx, h)

HEnv(ctx, h) == HTable(ctx, h)[h.path].env

\* node.parent, as a handle (NoHandle when null).
HParent(ctx, h) ==
  IF ~HasEnv(ctx, h) \/ HTable(ctx, h)[h.path].parent = NoNode THEN NoHandle
  ELSE LET r == HTable(ctx, h)[h.path].parent
       IN  Handle(IF r.tree = "self" THEN h.doc ELSE "last", r.path)

\* The node a reference stored on node h points to.
Deref(h, r) == Handle(IF r.tree = "self" THEN h.doc ELSE "last", r.path)

HChild(h, i) == Handle(h.doc, h.path \o <<i>>)

\* Child positions of the named children.
BodyOfBind(ctx, h) == HChild(h, Len(Kids(HNode(ctx, h))))

Expr2OfField(ctx, h) ==
  LET f == HNode(ctx, h)
  IN  IF IsNull(f.expr2) THEN NoHandle
      ELSE HChild(h, Len(NonNull(<<f.id, f.expr1>>)) + Len(f.ids) + 1)

BodyOfLocal(ctx, h) == HChild(h, Len(HNode(ctx, h).binds) + 1)

\* Results of the resolver: a node ("Node"), null ("Null"), a field set
\* ("Fields": field name -> ObjectField node) or a thrown error ("Throw").
RNode(h) == [kind |-> "Node", h |-> h, fields |-> <<>>]

RNull == [kind |-> "Null", h |-> NoHandle, fields |-> <<>>]

RThrow == [kind |-> "Throw", h |-> NoHandle, fields |-> <<>>]

\* The RangeError that ends a resolution whose recursion does not end: an
\* error like any other to the callers, told apart by its handle.
ROverflow == [kind |-> "Throw", h |-> Handle("overflow", <<>>), fields |-> <<>>]

RFields(fields) == [kind |-> "Fields", h |-> NoHandle, fields |-> fields]

\* Strips the `local` wrappers from a resolved target.
RECURSIVE StripLocals(_, _)
StripLocals(ctx, h) ==
  IF HNode(ctx, h).type = "LocalNode" THEN StripLocals(ctx, BodyOfLocal(ctx, h)) ELSE h

\* The fields of an object node, by name; a later field of the same name
\* replaces an earlier one.  Fields without an identifier are left out.
ObjectFieldSet(ctx, h) ==
  LET fields == HNode(ctx, h).fields
      idx == {i \in 1..Len(fields) : ~IsNull(fields[i].id)}
      nameOf(i) == fields[i].id.name
  IN  [x \in {nameOf(i) : i \in idx} |-> HChild(h, LastNamed(idx, nameOf, x))]

\* The first field of the object the lookup of resolveIndex stops at: a
\* field named `name`, or a field that has no identifier but an expr1.
FirstHit(fields, name) ==
  LET hit(i) == (~IsNull(fields[i].id) /\ fields[i].id.name = name) \/ ~IsNull(fields[i].expr1)
      hits == {i \in 1..Len(fields) : hit(i)}
  IN  IF hits = {} THEN 0 ELSE CHOOSE i \in hits : \A j \in hits : i <= j

RECURSIVE resolveVar(_, _, _)
RECURSIVE resolveFromEnv(_, _, _, _)
RECURSIVE resolveIndex(_, _, _)
RECURSIVE resolveIndirections(_, _, _)
RECURSIVE createFieldSet(_, _, _)

\* Analyzer.resolveVar.  fuel bounds the depth of the recursion: the source
\* recurses without bound and ends with a RangeError when the call stack
\* is exhausted.
resolveVar(ctx, h, fuel) ==
  IF fuel = 0 THEN ROverflow
  ELSE IF ~HasEnv(ctx, h) THEN RThrow
  ELSE IF HNode(ctx, h).id.name \notin DOMAIN HEnv(ctx, h) THEN RNull
  ELSE resolveFromEnv(ctx, h, HNode(ctx, h).id.name, fuel - 1)

\* resolveFromEnv as it would be if a bind to a variable were resolved by
\* resolving the reference again instead of the variable it is bound to.
resolveFromEnvNoProgress(ctx, h, idName, fuel) ==
  IF fuel = 0 THEN ROverflow
  ELSE
  With(HEnv(ctx, h)[idName], LAMBDA bind :
  With(Deref(h, bind), LAMBDA bh :
  IF bind.kind = "param" THEN RNode(bh)
  ELSE IF bind.kind = "spec" THEN RThrow
  ELSE
  With(IF bind.kind = "field" THEN Expr2OfField(ctx, bh) ELSE BodyOfBind(ctx, bh), LAMBDA body :
  IF body = NoHandle THEN RThrow
  ELSE
  With(HNode(ctx, body), LAMBDA bodyNode :
  CASE bodyNode.type = "ImportNode" -> RNull
    [] bodyNode.type = "VarNode" -> resolveVar(ctx, h, fuel - 1)
    [] bodyNode.type = "IndexNode" -> resolveIndex(ctx, body, fuel - 1)
    [] bodyNode.type = "BinaryNode" ->
         IF bodyNode.op # "BopPlus" THEN RThrow ELSE RNode(body)
    [] OTHER -> RNode(body)))))

\* Analyzer.resolveFromEnv, for the environment of node h.
resolveFromEnv(ctx, h, idName, fuel) ==
  IF fuel = 0 THEN ROverflow
  ELSE
  With(HEnv(ctx, h)[idName], LAMBDA bind :
  With(Deref(h, bind), LAMBDA bh :
  IF bind.kind = "param" THEN RNode(bh)
  ELSE IF bind.kind = "spec" THEN RThrow
  ELSE
  With(IF bind.kind = "field" THEN Expr2OfField(ctx, bh) ELSE BodyOfBind(ctx, bh), LAMBDA body :
  IF body = NoHandle THEN RThrow
  ELSE
  With(HNode(ctx, body), LAMBDA bodyNode :
  CASE bodyNode.type = "ImportNode" -> RNull
    [] bodyNode.type = "VarNode" -> resolveVar(ctx, body, fuel - 1)
    [] bodyNode.type = "IndexNode" -> resolveIndex(ctx, body, fuel - 1)
    [] bodyNode.type = "BinaryNode" ->
         IF bodyNode.op # "BopPlus" THEN RThrow ELSE RNode(body)
    [] OTHER -> RNode(body)))))

\* resolveIndex as it would be if an index into a mixin that has no field
\* of the name were unresolved instead of an internal error.
resolveIndexLenient(ctx, h, fuel) ==
  With(HNode(ctx, h), LAMBDA index :
  IF fuel = 0 THEN ROverflow
  ELSE IF IsNull(index.target) \/ IsNull(index.id) THEN RThrow
  ELSE
  With(CASE index.target.type = "VarNode" ->
              With(resolveVar(ctx, HChild(h, 1), fuel - 1), LAMBDA r :
              IF r.kind = "Node" THEN RNode(StripLocals(ctx, r.h)) ELSE r)
         [] index.target.type = "IndexNode" -> resolveIndex(ctx, HChild(h, 1), fuel - 1)
         [] index.target.type = "DollarNode" -> RNull
         [] OTHER -> RThrow, LAMBDA rt :
  IF rt.kind # "Node" THEN rt
  ELSE
  With(HNode(ctx, rt.h), LAMBDA resolvedTarget :
  CASE resolvedTarget.type = "ObjectNode" ->
         With(FirstHit(resolvedTarget.fields, index.id.name), LAMBDA hit :
         IF hit = 0 THEN RNull
         ELSE IF IsNull(resolvedTarget.fields[hit].id)
                 \/ resolvedTarget.fields[hit].id.name # index.id.name THEN RThrow
         ELSE With(Expr2OfField(ctx, HChild(rt.h, hit)), LAMBDA expr2 :
              IF expr2 = NoHandle THEN RNull ELSE RNode(expr2)))
    [] resolvedTarget.type = "BinaryNode" ->
         With(createFieldSet(ctx, rt.h, fuel - 1), LAMBDA merged :
         IF merged.kind = "Throw" THEN merged
         ELSE IF merged.kind # "Fields" THEN RThrow
         ELSE IF index.id.name \notin DOMAIN merged.fields THEN RNull
         ELSE With(Expr2OfField(ctx, merged.fields[index.id.name]), LAMBDA expr2 :
              IF expr2 = NoHandle THEN RNull ELSE RNode(expr2)))
    [] OTHER -> RThrow)))

\* Analyzer.resolveIndex.
resolveIndex(ctx, h, fuel) ==
  With(HNode(ctx, h), LAMBDA index :
  IF fuel = 0 THEN ROverflow
  ELSE IF IsNull(index.target) \/ IsNull(index.id) THEN RThrow
  ELSE
  With(CASE index.target.type = "VarNode" ->
              With(resolveVar(ctx, HChild(h, 1), fuel - 1), LAMBDA r :
              IF r.kind = "Node" THEN RNode(StripLocals(ctx, r.h)) ELSE r)
         [] index.target.type = "IndexNode" -> resolveIndex(ctx, HChild(h, 1), fuel - 1)
         [] index.target.type = "DollarNode" -> RNull
         [] OTHER -> RThrow, LAMBDA rt :
  IF rt.kind # "Node" THEN rt
  ELSE
  With(HNode(ctx, rt.h), LAMBDA resolvedTarget :
  CASE resolvedTarget.type = "ObjectNode" ->
         With(FirstHit(resolvedTarget.fields, index.id.name), LAMBDA hit :
         IF hit = 0 THEN RNull
         ELSE IF IsNull(resolvedTarget.fields[hit].id)
                 \/ resolvedTarget.fields[hit].id.name # index.id.name THEN RThrow
         ELSE With(Expr2OfField(ctx, HChild(rt.h, hit)), LAMBDA expr2 :
              IF expr2 = NoHandle THEN RNull ELSE RNode(expr2)))
    [] resolvedTarget.type = "BinaryNode" ->
         With(createFieldSet(ctx, rt.h, fuel - 1), LAMBDA merged :
         IF merged.kind = "Throw" THEN merged
         ELSE IF merged.kind # "Fields" \/ index.id.name \notin DOMAIN merged.fields THEN RThrow
         ELSE With(Expr2OfField(ctx, merged.fields[index.id.name]), LAMBDA expr2 :
              IF expr2 = NoHandle THEN RNull ELSE RNode(expr2)))
    [] OTHER -> RThrow)))

\* Analyzer.resolveIndirections: follows variables and indexes until an
\* object or a binary node is reached.
resolveIndirections(ctx, h, fuel) ==
  IF fuel = 0 THEN ROverflow
  ELSE
  With(HNode(ctx, h), LAMBDA n :
  IF n.type \in {"ObjectNode", "BinaryNode"} THEN RNode(h)
  ELSE IF n.type \notin {"VarNode", "IndexNode"} THEN RThrow
  ELSE With(IF n.type = "VarNode" THEN resolveVar(ctx, h, fuel - 1)
            ELSE resolveIndex(ctx, h, fuel - 1), LAMBDA next :
       IF next.kind # "Node" THEN next
       ELSE resolveIndirections(ctx, next.h, fuel - 1)))

\* createFieldSet as it would be if the fields of the left operand of a
\* mixin replaced those of the right operand.
createFieldSetLeftBiased(ctx, h, fuel) ==
  IF fuel = 0 THEN ROverflow
  ELSE
  With(HNode(ctx, h), LAMBDA n :
  IF n.type = "BinaryNode"
    THEN IF n.op # "BopPlus" THEN RNull
         ELSE
         With(resolveIndirections(ctx, HChild(h, 1), fuel - 1), LAMBDA left :
         IF left.kind = "Throw" THEN left
         ELSE
         With(resolveIndirections(ctx, HChild(h, 2), fuel - 1), LAMBDA right :
         IF right.kind = "Throw" THEN right
         ELSE IF left.kind = "Null" \/ right.kind = "Null" THEN RNull
         ELSE
         With(createFieldSet(ctx, left.h, fuel - 1), LAMBDA leftFields :
         IF leftFields.kind = "Throw" THEN leftFields
         ELSE
         With(createFieldSet(ctx, right.h, fuel - 1), LAMBDA rightFields :
         IF rightFields.kind = "Throw" THEN rightFields
         ELSE IF leftFields.kind = "Null" \/ rightFields.kind = "Null" THEN RNull
         ELSE RFields(envMerge(rightFields.fields, leftFields.fields))))))
  ELSE IF n.type = "ObjectNode" THEN RFields(ObjectFieldSet(ctx, h))
  ELSE RNull)

\* Analyzer.createFieldSet: the fields of an object, or of a mixin with
\* the right operand's fields replacing the left operand's.
createFieldSet(ctx, h, fuel) ==
  IF fuel = 0 THEN ROverflow
  ELSE
  With(HNode(ctx, h), LAMBDA n :
  IF n.type = "BinaryNode"
    THEN IF n.op # "BopPlus" THEN RNull
         ELSE
         With(resolveIndirections(ctx, HChild(h, 1), fuel - 1), LAMBDA left :
         IF left.kind = "Throw" THEN left
         ELSE
         With(resolveIndirections(ctx, HChild(h, 2), fuel - 1), LAMBDA right :
         IF right.kind = "Throw" THEN right
         ELSE IF left.kind = "Null" \/ right.kind = "Null" THEN RNull
         ELSE
         With(createFieldSet(ctx, left.h, fuel - 1), LAMBDA leftFields :
         IF leftFields.kind = "Throw" THEN leftFields
         ELSE
         With(createFieldSet(ctx, right.h, fuel - 1), LAMBDA rightFields :
         IF rightFields.kind = "Throw" THEN rightFields
         ELSE IF leftFields.kind = "Null" \/ rightFields.kind = "Null" THEN RNull
         ELSE RFields(envMerge(leftFields.fields, rightFields.fields))))))
  ELSE IF n.type = "ObjectNode" THEN RFields(ObjectFieldSet(ctx, h))
  ELSE RNull)

\* Results of tryResolveIndirections: kind is "Unresolved",
\* "UnresolvedIndexTarget", "UnresolvedIndexId" (fields: the fields of the
\* resolved target), "ResolvedFunction", "ResolvedFreeVar",
\* "IndexedObjectFields" (fields), "Node" (h) or "Throw".
Resolved(kind, h, fields) == [kind |-> kind, h |-> h, fields |-> fields]

isResolveFailure(r) == r.kind \in {"Unresolved", "UnresolvedIndexTarget", "UnresolvedIndexId"}

\* ast.tryResolveIndirections: resolves a node as far as possible and says
\* how far it got.
RECURSIVE tryResolveIndirections(_, _, _)
tryResolveIndirections(ctx, h, fuel) ==
  IF fuel = 0 THEN Resolved("Throw", NoHandle, <<>>)
  ELSE
  With(HNode(ctx, h), LAMBDA n :
  CASE n.type = "IdentifierNode" ->
         With(HParent(ctx, h), LAMBDA parent :
         IF parent # NoHandle /\ HNode(ctx, parent).type \in {"VarNode", "IndexNode"}
           THEN tryResolveIndirections(ctx, parent, fuel - 1)
           ELSE Resolved("Unresolved", NoHandle, <<>>))
    [] n.type = "VarNode" ->
         IF ~HasEnv(ctx, h) THEN Resolved("Throw", NoHandle, <<>>)
         ELSE IF n.id.name \notin DOMAIN HEnv(ctx, h) THEN Resolved("Unresolved", NoHandle, <<>>)
         ELSE
         With(HEnv(ctx, h)[n.id.name], LAMBDA bind :
         With(Deref(h, bind), LAMBDA bh :
         IF bind.kind = "param" THEN Resolved("ResolvedFreeVar", bh, <<>>)
         ELSE IF bind.kind = "spec" THEN Resolved("Throw", NoHandle, <<>>)
         ELSE
         With(IF bind.kind = "field" THEN Expr2OfField(ctx, bh) ELSE BodyOfBind(ctx, bh), LAMBDA body :
         IF body = NoHandle THEN Resolved("Throw", NoHandle, <<>>)
         ELSE
         With(HNode(ctx, body), LAMBDA bodyNode :
         IF bodyNode.type = "ImportNode" THEN Resolved("Unresolved", NoHandle, <<>>)
         ELSE IF bodyNode.type = "BinaryNode" /\ bodyNode.op # "BopPlus"
           THEN Resolved("Throw", NoHandle, <<>>)
         ELSE tryResolveIndirections(ctx, body, fuel - 1)))))
    [] n.type = "IndexNode" ->
         IF IsNull(n.id) THEN Resolved("Unresolved", NoHandle, <<>>)
         ELSE
         With(tryResolveIndirections(ctx, HChild(h, 1), fuel - 1), LAMBDA target :
         IF target.kind = "Throw" THEN target
         ELSE IF target.kind # "IndexedObjectFields"
           THEN Resolved("UnresolvedIndexTarget", NoHandle, <<>>)
         ELSE IF n.id.name \notin DOMAIN target.fields
           THEN Resolved("UnresolvedIndexId", NoHandle, target.fields)
         ELSE
         With(Expr2OfField(ctx, target.fields[n.id.name]), LAMBDA expr2 :
         IF expr2 = NoHandle THEN Resolved("UnresolvedIndexId", NoHandle, target.fields)
         ELSE tryResolveIndirections(ctx, expr2, fuel - 1)))
    [] n.type = "LocalNode" -> tryResolveIndirections(ctx, BodyOfLocal(ctx, h), fuel - 1)
    [] n.type = "ObjectNode" ->
         Resolved("IndexedObjectFields", NoHandle, ObjectFieldSet(ctx, h))
    [] n.type = "BinaryNode" ->
         IF n.op # "BopPlus" THEN Resolved("Node", h, <<>>)
         ELSE
         With(tryResolveIndirections(ctx, HChild(h, 1), fuel - 1), LAMBDA left :
         IF left.kind = "Throw" THEN left
         ELSE
         With(tryResolveIndirections(ctx, HChild(h, 2), fuel - 1), LAMBDA right :
         IF right.kind = "Throw" THEN right
         ELSE IF left.kind = "IndexedObjectFields" /\ right.kind = "IndexedObjectFields"
           THEN Resolved("IndexedObjectFields", NoHandle, envMerge(left.fields, right.fields))
         ELSE Resolved("Unresolved", NoHandle, <<>>)))
    [] n.type = "FunctionNode" -> Resolved("ResolvedFunction", h, <<>>)
    [] OTHER -> Resolved("Node", h, <<>>))

\* ---------------------------------------------------------------------
\* Completion (Analyzer.onComplete and the methods it calls).

\* service.CompletionInfo.
CompletionInfo(label, kind) == [label |-> label, kind |-> kind]

\* What a completion method gives back: the suggestions, or a thrown error;
\* ann is the annotation table of the current parse after the call.
Completions(list, ann) == [throw |-> FALSE, list |-> list, ann |-> ann]

Thrown(ann) == [throw |-> TRUE, list |-> {}, ann |-> ann]

\* envToSuggestions: one Variable suggestion per name of the environment.
envToSuggestions(env) == {CompletionInfo(x, "Variable") : x \in DOMAIN env}

\* Analyzer.completionsFromFields: the fields that have an identifier and a
\* value and are not `local`.
completionsFromFields(ctx, fieldSet) ==
  LET field(x) == HNode(ctx, fieldSet[x])
      keep == {x \in DOMAIN fieldSet :
                 /\ ~IsNull(field(x).id)
                 /\ ~IsNull(field(x).expr2)
                 /\ field(x).kind # "ObjectLocal"}
  IN  {CompletionInfo(field(x).id.name, IF field(x).methodSugar THEN "Method" ELSE "Field") :
         x \in keep}

\* completionsFromNode as it would be if the fields of a field-bearing
\* value were suggested whether or not a dot was typed.
completionsFromNodeIgnoringDot(ctx, h, lastCharIsDot) ==
  With(tryResolveIndirections(ctx, h, MaxResolve), LAMBDA resolved :
  CASE resolved.kind = "Throw" -> Thrown(ctx.curAnn)
    [] resolved.kind = "Unresolved" ->
         Completions(IF HasEnv(ctx, h) THEN envToSuggestions(HEnv(ctx, h)) ELSE {}, ctx.curAnn)
    [] resolved.kind = "UnresolvedIndexTarget" -> Completions({}, ctx.curAnn)
    [] resolved.kind = "UnresolvedIndexId" ->
         Completions(completionsFromFields(ctx, resolved.fields), ctx.curAnn)
    [] resolved.kind \in {"ResolvedFunction", "ResolvedFreeVar", "Node"} ->
         Completions({}, ctx.curAnn)
    [] resolved.kind = "IndexedObjectFields" ->
         Completions(completionsFromFields(ctx, resolved.fields), ctx.curAnn)
    [] OTHER -> Completions({}, ctx.curAnn))

\* completionsFromNode as it would be if an index whose target resolves but
\* whose id does not were completed from the environment of the node.
completionsFromNodeFromEnv(ctx, h, lastCharIsDot) ==
  With(tryResolveIndirections(ctx, h, MaxResolve), LAMBDA resolved :
  CASE resolved.kind = "Throw" -> Thrown(ctx.curAnn)
    [] resolved.kind \in {"Unresolved", "UnresolvedIndexId"} ->
         Completions(IF HasEnv(ctx, h) THEN envToSuggestions(HEnv(ctx, h)) ELSE {}, ctx.curAnn)
    [] resolved.kind = "UnresolvedIndexTarget" -> Completions({}, ctx.curAnn)
    [] resolved.kind \in {"ResolvedFunction", "ResolvedFreeVar", "Node"} ->
         Completions({}, ctx.curAnn)
    [] resolved.kind = "IndexedObjectFields" ->
         IF lastCharIsDot
           THEN Completions(completionsFromFields(ctx, resolved.fields), ctx.curAnn)
           ELSE Completions({}, ctx.curAnn)
    [] OTHER -> Completions({}, ctx.curAnn))

\* Analyzer.completionsFromNode.
completionsFromNode(ctx, h, lastCharIsDot) ==
  With(tryResolveIndirections(ctx, h, MaxResolve), LAMBDA resolved :
  CASE resolved.kind = "Throw" -> Thrown(ctx.curAnn)
    [] resolved.kind = "Unresolved" ->
         Completions(IF HasEnv(ctx, h) THEN envToSuggestions(HEnv(ctx, h)) ELSE {}, ctx.curAnn)
    [] resolved.kind = "UnresolvedIndexTarget" -> Completions({}, ctx.curAnn)
    [] resolved.kind = "UnresolvedIndexId" ->
         Completions(completionsFromFields(ctx, resolved.fields), ctx.curAnn)
    [] resolved.kind \in {"ResolvedFunction", "ResolvedFreeVar", "Node"} ->
         Completions({}, ctx.curAnn)
    [] resolved.kind = "IndexedObjectFields" ->
         IF lastCharIsDot
           THEN Completions(completionsFromFields(ctx, resolved.fields), ctx.curAnn)
           ELSE Completions({}, ctx.curAnn)
    [] OTHER -> Completions({}, ctx.curAnn))

\* Analyzer.completionsFromParse: the document parses.
completionsFromParse(compiled, cursorLoc, lastCharIsDot) ==
  With(getNodeAtPositionFromAst(compiled.root, cursorLoc), LAMBDA found :
  IF found.kind = "NotIdentifier" \/ isUnanalyzableFindFailure(found)
    THEN Completions({}, compiled.ann)
  ELSE
  With(IF isAnalyzableFindFailure(found)
         THEN IF found.terminalNodeOnCursorLine # NoNode
                THEN found.terminalNodeOnCursorLine ELSE found.tightestEnclosingNode
         ELSE found.node, LAMBDA foundNode :
  completionsFromNode(Context(compiled.root, compiled.ann, compiled.root, compiled.ann),
                      Handle("cur", foundNode.path), lastCharIsDot)))

\* The environment of a node of the last successful parse, as seen from
\* the `rest` tree: its binding sites are in the tree of the last parse.
EnvOfLast(env) == [x \in DOMAIN env |-> BindRef("last", env[x].path, env[x].kind)]

\* completionsFromFailedParse as it would be without the test of the cursor
\* against the range of `rest`.
completionsFromFailedParseAnywhere(compiled, lastParse, cursorLoc, lastCharIsDot) ==
  IF compiled.kind = "lexFailure" \/ IsNull(compiled.err.rest) THEN Completions({}, compiled.ann)
  ELSE
  With(compiled.err.rest, LAMBDA rest :
  With(getNodeAtPositionFromAst(lastParse.root, cursorLoc), LAMBDA found :
  IF isUnanalyzableFindFailure(found) THEN Completions({}, compiled.ann)
  ELSE
  With(IF isAnalyzableFindFailure(found)
         THEN IF found.terminalNodeOnCursorLine # NoNode
                THEN found.terminalNodeOnCursorLine ELSE found.tightestEnclosingNode
         ELSE found.node, LAMBDA foundNode :
  IF foundNode.path \notin DOMAIN lastParse.ann THEN Thrown(compiled.ann)
  ELSE
  With(InitializingVisitor(rest, NodeRef("last", foundNode.path),
                           EnvOfLast(lastParse.ann[foundNode.path].env), compiled.ann),
       LAMBDA ann :
  completionsFromNode(Context(rest, ann, lastParse.root, lastParse.ann),
                      Handle("cur", <<>>), lastCharIsDot)))))

\* Analyzer.completionsFromFailedParse: the document does not parse; the
\* recovered tree `rest` is annotated with the environment found in the
\* last successful parse at the cursor.
completionsFromFailedParse(compiled, lastParse, cursorLoc, lastCharIsDot) ==
  IF compiled.kind = "lexFailure" \/ IsNull(compiled.err.rest) THEN Completions({}, compiled.ann)
  ELSE
  With(compiled.err.rest, LAMBDA rest :
  IF ~inRange(cursorLoc, rest.loc)
     /\ ~(cursorLoc.line = 1 /\ cursorLoc.column = rest.loc.e + 1)
    THEN Completions({}, compiled.ann)
  ELSE
  With(getNodeAtPositionFromAst(lastParse.root, cursorLoc), LAMBDA found :
  IF isUnanalyzableFindFailure(found) THEN Completions({}, compiled.ann)
  ELSE
  With(IF isAnalyzableFindFailure(found)
         THEN IF found.terminalNodeOnCursorLine # NoNode
                THEN found.terminalNodeOnCursorLine ELSE found.tightestEnclosingNode
         ELSE found.node, LAMBDA foundNode :
  IF foundNode.path \notin DOMAIN lastParse.ann THEN Thrown(compiled.ann)
  ELSE
  With(InitializingVisitor(rest, NodeRef("last", foundNode.path),
                           EnvOfLast(lastParse.ann[foundNode.path].env), compiled.ann),
       LAMBDA ann :
  completionsFromNode(Context(rest, ann, lastParse.root, lastParse.ann),
                      Handle("cur", <<>>), lastCharIsDot)))))

\* completionsOrThrow as it would be if, without a last successful parse,
\* the recovered tree of the parse error were completed on its own, in the
\* empty environment.
completionsOrThrowFromRest(cached, lastSuccessful, txt, ver, cursorLoc) ==
  With(Cache(cached, txt, ver), LAMBDA compiled :
  LET lastCharIsDot == /\ (cursorLoc.column - 1) \in 1..Len(txt)
                       /\ txt[cursorLoc.column - 1].kind = "TokenDot"
      lastParse == IF compiled.kind = "ok" THEN compiled ELSE lastSuccessful
  IN  IF cursorLoc.line # 1 THEN Thrown(compiled.ann)
      ELSE IF compiled.kind = "ok" THEN completionsFromParse(compiled, cursorLoc, lastCharIsDot)
      ELSE IF lastParse.kind = "none"
        THEN IF compiled.kind = "lexFailure" \/ IsNull(compiled.err.rest)
               THEN Completions({}, compiled.ann)
             ELSE completionsFromNode(
                    Context(compiled.err.rest,
                            InitializingVisitor(compiled.err.rest, NoNode, emptyEnvironment,
                                                compiled.ann),
                            compiled.err.rest, NoAnnotations),
                    Handle("cur", <<>>), lastCharIsDot)
      ELSE completionsFromFailedParse(compiled, lastParse, cursorLoc, lastCharIsDot))

\* The body of the promise of Analyzer.onComplete, without its try/catch:
\* the document text has one line, so reading the character before the
\* cursor on any other line throws.
completionsOrThrow(cached, lastSuccessful, txt, ver, cursorLoc) ==
  With(Cache(cached, txt, ver), LAMBDA compiled :
  LET lastCharIsDot == /\ (cursorLoc.column - 1) \in 1..Len(txt)
                       /\ txt[cursorLoc.column - 1].kind = "TokenDot"
      lastParse == IF compiled.kind = "ok" THEN compiled ELSE lastSuccessful
  IN  IF cursorLoc.line # 1 THEN Thrown(compiled.ann)
      ELSE IF compiled.kind = "ok" THEN completionsFromParse(compiled, cursorLoc, lastCharIsDot)
      ELSE IF lastParse.kind = "none" THEN Completions({}, compiled.ann)
      ELSE completionsFromFailedParse(compiled, lastParse, cursorLoc, lastCharIsDot))

\* onComplete as it would be without the try/catch in its promise (the
\* onComplete of src/server/ast/analyzer.ts): an error rejects the promise.
onCompleteUncaught(cached, lastSuccessful, txt, ver, cursorLoc) ==
  With(completionsOrThrow(cached, lastSuccessful, txt, ver, cursorLoc), LAMBDA r :
  [outcome |-> IF r.throw THEN "rejected" ELSE "resolved", raised |-> r.throw,
   list |-> IF r.throw THEN {} ELSE r.list, ann |-> r.ann])

\* The promise of Analyzer.onComplete: an error thrown while computing the
\* suggestions is caught and the promise resolves to the empty list.
onComplete(cached, lastSuccessful, txt, ver, cursorLoc) ==
  With(completionsOrThrow(cached, lastSuccessful, txt, ver, cursorLoc), LAMBDA r :
  [outcome |-> "resolved", raised |-> r.throw,
   list |-> IF r.throw THEN {} ELSE r.list, ann |-> r.ann])

\* ---------------------------------------------------------------------
\* Hover (Analyzer.onHover and the methods it calls).

\* Identifier.resolve: the variable or index the identifier is part of.
resolveIdentifier(ctx, h) ==
  With(HParent(ctx, h), LAMBDA parent :
  IF parent = NoHandle THEN RNull
  ELSE IF HNode(ctx, parent).type = "VarNode" THEN resolveVar(ctx, parent, MaxResolve)
  ELSE IF HNode(ctx, parent).type = "IndexNode" THEN resolveIndex(ctx, parent, MaxResolve)
  ELSE RNull)

\* resolveSymbol as it would be if only the kind of the node decided.
resolveSymbolByKindOnly(ctx, h) ==
  IF HNode(ctx, h).type = "IdentifierNode"
    THEN With(resolveIdentifier(ctx, h), LAMBDA resolved :
         IF resolved.kind = "Fields" THEN RNull ELSE resolved)
  ELSE IF HNode(ctx, h).type = "LocalNode" THEN RNode(h)
  ELSE RNull

\* Analyzer.resolveSymbol.
resolveSymbol(ctx, h) ==
  With(HParent(ctx, h), LAMBDA parent :
  IF parent # NoHandle /\ HNode(ctx, parent).type = "ObjectFieldNode" THEN RNode(parent)
  ELSE IF HNode(ctx, h).type = "IdentifierNode"
    THEN With(resolveIdentifier(ctx, h), LAMBDA resolved :
         IF resolved.kind = "Fields" THEN RNull ELSE resolved)
  ELSE IF HNode(ctx, h).type = "LocalNode" THEN RNode(h)
  ELSE RNull)

\* What onHover gives back: outcome is "thrown" (an error thrown by the
\* call itself), or "resolved" with the node whose text is rendered
\* (NoHandle when the contents are empty).
Hover(outcome, rendered) == [outcome |-> outcome, rendered |-> rendered]

\* onHover as it would be if the resolved node were always the one shown.
hoverTargetOfResolved(ctx, r) == r

\* Analyzer.onHover, the special cases: the node rendered for the resolved
\* node r.
hoverTarget(ctx, r) ==
  With(HParent(ctx, r), LAMBDA resolvedParent :
  IF HNode(ctx, r).type = "FunctionParamNode" \/ resolvedParent = NoHandle THEN r
  ELSE IF HNode(ctx, resolvedParent).type \in {"FunctionNode", "LocalNode", "ObjectFieldNode"}
    THEN resolvedParent
  ELSE r)

\* Analyzer.getNodeAtPosition and Analyzer.onHover.
onHover(cached, txt, ver, cursorLoc) ==
  With(Cache(cached, txt, ver), LAMBDA compiled :
  IF compiled.kind # "ok" THEN Hover("thrown", NoHandle)
  ELSE
  With(Context(compiled.root, compiled.ann, compiled.root, compiled.ann), LAMBDA ctx :
  With(getNodeAtPositionFromAst(compiled.root, cursorLoc), LAMBDA nodeAtPos :
  IF isFindFailure(nodeAtPos) THEN Hover("resolved", NoHandle)
  ELSE
  With(Handle("cur", nodeAtPos.node.path), LAMBDA h :
  With(HParent(ctx, h), LAMBDA parent :
  IF parent # NoHandle /\ HNode(ctx, parent).type = "FunctionParamNode"
    THEN Hover("resolved", parent)
  ELSE
  With(resolveSymbol(ctx, h), LAMBDA resolved :
  IF resolved.kind = "Throw" THEN Hover("thrown", NoHandle)
  ELSE IF resolved.kind = "Null" THEN Hover("resolved", NoHandle)
  ELSE Hover("resolved", hoverTarget(ctx, resolved.h))))))))

\* ---------------------------------------------------------------------
\* Documents the editor can produce: a document grows by typed fragments,
\* each a short sequence of lexemes, drawn from the fragments of its family.

L(kind, data) == [kind |-> kind, data |-> data]

Id(x) == L("TokenIdentifier", x)

Op(x) == L("TokenOperator", x)

Kw(kind) == L(kind, "")

Str(x) == L("TokenStringDouble", x)

Num == L("TokenNumber", "1")

\* `a o1`, `a o2` and the lone operand: the documents `a o1 a o2 a`.
BinFragments(o1, o2) == {<<Id("a"), Op(o1)>>, <<Id("a"), Op(o2)>>, <<Id("a")>>}

\* The postfix operations `.f`, `(z)`, `[i]` and `{ }`.
PostfixOperations ==
  {<<Kw("TokenDot"), Id("f")>>,
   <<Kw("TokenParenL"), Id("z"), Kw("TokenParenR")>>,
   <<Kw("TokenBracketL"), Id("i"), Kw("TokenBracketR")>>,
   <<Kw("TokenBraceL"), Kw("TokenBraceR")>>}

\* `x o` (o binary), `o` (o unary), the operand `y` and the postfix
\* operations: the documents `x o y.f`, `o y(z)`, `y[i]{ }`, ...
PostfixFragments(o) ==
  {<<Id("y")>>} \cup PostfixOperations
    \cup (IF o \in DOMAIN BopMap THEN {<<Id("x"), Op(o)>>} ELSE {})
    \cup (IF o \in DOMAIN UopMap THEN {<<Op(o)>>} ELSE {})

DotFragments ==
  {<<Id("y")>>, <<Kw("TokenDot"), Id("f")>>, <<Kw("TokenDot")>>, <<Kw("TokenSuper")>>,
   <<Kw("TokenParenL")>>, <<Kw("TokenBracketL")>>, <<Id("x"), Op("+")>>,
   <<Kw("TokenLocal"), Id("a"), Op("=")>>, <<Kw("TokenBraceL"), Id("a"), Op(":")>>,
   <<Op("-")>>, <<Kw("TokenIf")>>, <<L("Bad", "")>>}

LocalFragments ==
  {<<Kw("TokenLocal"), Id("a"), Op("=")>>, <<Id("b")>>, <<Id("b"), Op("+"), Id("c")>>,
   <<Id("b"), Op("*"), Id("c")>>, <<Num>>, <<Kw("TokenDot"), Id("f")>>,
   <<Kw("TokenSemicolon")>>, <<Kw("TokenComma"), Id("d"), Op("=")>>,
   <<Kw("TokenBraceL"), Kw("TokenBraceR")>>}

ObjectFragments ==
  {<<Kw("TokenBraceL"), Id("a"), Op(":"), Num, Kw("TokenComma")>>,
   <<Kw("TokenBraceL"), Kw("TokenBracketL"), Id("a"), Kw("TokenBracketR"), Op(":"), Num, Kw("TokenComma")>>,
   <<Id("a"), Op(":"), Num, Kw("TokenComma")>>,
   <<Str("a"), Op("::"), Num, Kw("TokenComma")>>,
   <<Kw("TokenBracketL"), Id("a"), Kw("TokenBracketR"), Op(":"), Num, Kw("TokenComma")>>,
   <<Id("b"), Op(":"), Num, Kw("TokenComma")>>,
   <<Kw("TokenLocal"), Id("a"), Op("="), Num, Kw("TokenComma")>>,
   <<Kw("TokenBraceR")>>}

ImportFragments ==
  {<<Kw("TokenImport")>>, <<Kw("TokenImportStr")>>, <<Str("f")>>,
   <<Op("+"), Str("g")>>, <<Kw("TokenParenL")>>, <<Kw("TokenParenR")>>,
   <<Kw("TokenDot"), Id("f")>>, <<Id("a")>>, <<Kw("TokenTrue")>>}

\* `if a then b`, `else c`, the call `f ( x )`, `tailstrict` and `+ d`:
\* conditionals with and without an else branch, calls with and without
\* tailstrict.
ConstructFragments ==
  {<<Kw("TokenIf"), Id("a"), Kw("TokenThen"), Id("b")>>,
   <<Kw("TokenElse"), Id("c")>>,
   <<Id("f"), Kw("TokenParenL"), Id("x"), Kw("TokenParenR")>>,
   <<Kw("TokenTailStrict")>>,
   <<Op("+"), Id("d")>>}

\* `local a = 1 ;`, `local a = 1 , b = 1 ;`, `local a = 1 , a = 1 ;`,
\* `local b ( a ) = 1 , b = 1 ;` and `a`: locals with distinct and with
\* repeated names, one inside the other.
BindFragments ==
  {<<Kw("TokenLocal"), Id("a"), Op("="), Num, Kw("TokenSemicolon")>>,
   <<Kw("TokenLocal"), Id("a"), Op("="), Num, Kw("TokenComma"),
     Id("b"), Op("="), Num, Kw("TokenSemicolon")>>,
   <<Kw("TokenLocal"), Id("a"), Op("="), Num, Kw("TokenComma"),
     Id("a"), Op("="), Num, Kw("TokenSemicolon")>>,
   <<Kw("TokenLocal"), Id("b"), Kw("TokenParenL"), Id("a"), Kw("TokenParenR"), Op("="), Num,
     Kw("TokenComma"), Id("b"), Op("="), Num, Kw("TokenSemicolon")>>,
   <<Id("a")>>}

\* `{ local a = 1 ,`, `{ a : 1 ,`, `local a = 1 ,`, `local b = 1 ,`, `a : 1 ,`,
\* `}` and `} + { local b = 1 , b : 1 }`: objects with object-level locals of
\* distinct and of repeated names, before and after a field of the same
\* name, alone and in a mixin.
ObjectLocalFragments ==
  {<<Kw("TokenBraceL"), Kw("TokenLocal"), Id("a"), Op("="), Num, Kw("TokenComma")>>,
   <<Kw("TokenBraceL"), Id("a"), Op(":"), Num, Kw("TokenComma")>>,
   <<Kw("TokenBraceR"), Op("+"), Kw("TokenBraceL"), Kw("TokenLocal"), Id("b"), Op("="), Num,
     Kw("TokenComma"), Id("b"), Op(":"), Num, Kw("TokenBraceR")>>,
   <<Kw("TokenLocal"), Id("a"), Op("="), Num, Kw("TokenComma")>>,
   <<Kw("TokenLocal"), Id("b"), Op("="), Num, Kw("TokenComma")>>,
   <<Id("a"), Op(":"), Num, Kw("TokenComma")>>,
   <<Kw("TokenBraceR")>>}

\* The families of documents the parser is exercised on: a family is the
\* set of fragments its documents are typed from.
ParserFamilies ==
  {BinFragments(o1, o2) : o1, o2 \in DOMAIN BopMap}
    \cup {PostfixFragments(o) : o \in DOMAIN BopMap \cup DOMAIN UopMap}
    \cup {DotFragments, LocalFragments, ObjectFragments, ImportFragments,
          ConstructFragments, BindFragments, ObjectLocalFragments}

\* `local o = { x : 1 } ;`, uses of o and y, dots and a character that
\* does not lex.
ScopeFragments ==
  {<<Kw("TokenLocal"), Id("o"), Op("="), Kw("TokenBraceL"), Id("x"), Op(":"), Num,
     Kw("TokenBraceR"), Kw("TokenSemicolon")>>,
   <<Id("o")>>, <<Id("y")>>, <<Kw("TokenDot")>>, <<Kw("TokenDot"), Id("x")>>,
   <<L("Bad", "")>>}

\* `(`, the object `{ a : 1 }`, `.` and `)`: an object in parentheses,
\* dotted; and the function `function ( p ) p`.
ParenFragments ==
  {<<Kw("TokenParenL")>>,
   <<Kw("TokenBraceL"), Id("a"), Op(":"), Num, Kw("TokenBraceR")>>,
   <<Kw("TokenDot")>>, <<Kw("TokenParenR")>>,
   <<Kw("TokenFunction"), Kw("TokenParenL"), Id("p"), Kw("TokenParenR"), Id("p")>>}

\* `local o = { a : 1 , local l = 1 , b : 1 } + { b ( p ) : 1 , c : 1 } ;`,
\* `local o = { b : 1 } + { a : 1 , b : 1 } + { b : 1 } ;` (a mixin nested
\* in the left operand of a mixin), uses of o, dots and the fields b and z.
MixinFragments ==
  {<<Kw("TokenLocal"), Id("o"), Op("="),
     Kw("TokenBraceL"), Id("a"), Op(":"), Num, Kw("TokenComma"),
       Kw("TokenLocal"), Id("l"), Op("="), Num, Kw("TokenComma"),
       Id("b"), Op(":"), Num, Kw("TokenBraceR"),
     Op("+"),
     Kw("TokenBraceL"), Id("b"), Kw("TokenParenL"), Id("p"), Kw("TokenParenR"), Op(":"), Num,
       Kw("TokenComma"), Id("c"), Op(":"), Num, Kw("TokenBraceR"),
     Kw("TokenSemicolon")>>,
   <<Kw("TokenLocal"), Id("o"), Op("="),
     Kw("TokenBraceL"), Id("b"), Op(":"), Num, Kw("TokenBraceR"),
     Op("+"),
     Kw("TokenBraceL"), Id("a"), Op(":"), Num, Kw("TokenComma"), Id("b"), Op(":"), Num,
       Kw("TokenBraceR"),
     Op("+"),
     Kw("TokenBraceL"), Id("b"), Op(":"), Num, Kw("TokenBraceR"),
     Kw("TokenSemicolon")>>,
   <<Id("o")>>, <<Kw("TokenDot")>>, <<Kw("TokenDot"), Id("b")>>, <<Kw("TokenDot"), Id("z")>>}

\* `local c = c , m = m + { a : 1 } , o = { a : 1 } , x = o , y = x + o ;`
\* (c is bound to itself, m to a mixin of itself, y to a mixin reached
\* through a chain of binds), uses of c, m and y and the index `. a`.
CycleFragments ==
  {<<Kw("TokenLocal"), Id("c"), Op("="), Id("c"), Kw("TokenComma"),
     Id("m"), Op("="), Id("m"), Op("+"),
       Kw("TokenBraceL"), Id("a"), Op(":"), Num, Kw("TokenBraceR"), Kw("TokenComma"),
     Id("o"), Op("="), Kw("TokenBraceL"), Id("a"), Op(":"), Num, Kw("TokenBraceR"),
       Kw("TokenComma"),
     Id("x"), Op("="), Id("o"), Kw("TokenComma"),
     Id("y"), Op("="), Id("x"), Op("+"), Id("o"),
     Kw("TokenSemicolon")>>,
   <<Id("c")>>, <<Id("m")>>, <<Id("y")>>, <<Kw("TokenDot"), Id("a")>>}

\* `[ a`, `, a`, `,`, `]`, `for x in a`, `if a` and `if a ]`: arrays and
\* array comprehensions, whole and cut short.
ArrayFragments ==
  {<<Kw("TokenBracketL"), Id("a")>>, <<Kw("TokenComma"), Id("a")>>, <<Kw("TokenComma")>>,
   <<Kw("TokenBracketR")>>,
   <<Kw("TokenFor"), Id("x"), Kw("TokenIn"), Id("a")>>, <<Kw("TokenIf"), Id("a")>>,
   <<Kw("TokenIf"), Id("a"), Kw("TokenBracketR")>>}

\* `f ( a`, `function ( a`, `, a`, `,`, `)`, `= 1` and `a`: calls and
\* functions with their argument and parameter lists.
CallFragments ==
  {<<Id("f"), Kw("TokenParenL"), Id("a")>>,
   <<Kw("TokenFunction"), Kw("TokenParenL"), Id("a")>>,
   <<Kw("TokenComma"), Id("a")>>, <<Kw("TokenComma")>>, <<Kw("TokenParenR")>>,
   <<Op("="), Num>>, <<Id("a")>>}

\* `{ a : 1 ,`, `{ [ a ] : 1 for x`, `in a }`, `b : 1 ,`, `local b = 1 ,`,
\* `assert a : 1 ,` and `}`: objects with fields, locals and asserts, and
\* object comprehensions.
ObjectLoopFragments ==
  {<<Kw("TokenBraceL"), Id("a"), Op(":"), Num, Kw("TokenComma")>>,
   <<Kw("TokenBraceL"), Kw("TokenBracketL"), Id("a"), Kw("TokenBracketR"), Op(":"), Num,
     Kw("TokenFor"), Id("x")>>,
   <<Kw("TokenIn"), Id("a"), Kw("TokenBraceR")>>,
   <<Id("b"), Op(":"), Num, Kw("TokenComma")>>,
   <<Kw("TokenLocal"), Id("b"), Op("="), Num, Kw("TokenComma")>>,
   <<Kw("TokenAssert"), Id("a"), Op(":"), Num, Kw("TokenComma")>>,
   <<Kw("TokenBraceR")>>}

\* `super`, `.`, `f`, `(`, `)` and `[ f ]`: terminals and postfix
\* operations.
TerminalFragments ==
  {<<Kw("TokenSuper")>>, <<Kw("TokenDot")>>, <<Id("f")>>, <<Kw("TokenParenL")>>,
   <<Kw("TokenParenR")>>, <<Kw("TokenBracketL"), Id("f"), Kw("TokenBracketR")>>}

\* `local a = 1`, `, b = 1`, `;`, `a`, `if a then`, `else` and
\* `assert a`: the constructs that begin with a keyword.
KeywordFragments ==
  {<<Kw("TokenLocal"), Id("a"), Op("="), Num>>, <<Kw("TokenComma"), Id("b"), Op("="), Num>>,
   <<Kw("TokenSemicolon")>>, <<Id("a")>>,
   <<Kw("TokenIf"), Id("a"), Kw("TokenThen")>>, <<Kw("TokenElse")>>,
   <<Kw("TokenAssert"), Id("a")>>}

\* `-`, `+`, `a`, `error`, `import "s"` and a comment: unary and binary
\* operators, `error`, imports and heading comments.
OperatorFragments ==
  {<<Op("-")>>, <<Op("+")>>, <<Id("a")>>, <<Kw("TokenError")>>,
   <<Kw("TokenImport"), Str("s")>>, <<L("TokenCommentCpp", "c")>>}

\* The families that take the parser through each of its loops and through
\* the end of the file in each of its productions.
GrammarFamilies ==
  {ArrayFragments, CallFragments, ObjectLoopFragments, TerminalFragments,
   KeywordFragments, OperatorFragments}

\* The families of documents whose diagnostics are published: documents
\* that parse, that do not parse and that do not lex.
ServerFamilies == {ScopeFragments, LocalFragments, ObjectFragments}

\* The families of documents edited while requests are served.
Families == {DotFragments, ScopeFragments, ParenFragments, MixinFragments, CycleFragments}

\* ---------------------------------------------------------------------
\* State.

VARIABLES
  fam,          \* the fragments the document is typed from
  text,         \* the document text held by the editor
  nfrags,       \* number of fragments typed
  opened,       \* whether the document is open
  version,      \* the document version
  cache,        \* CompilerService: the cached parse of the document
  lastSuccess,  \* CompilerService: the last successful parse
  out,          \* the result of the request being answered, if any
  languageId,   \* the language of the document
  diagnostics   \* the diagnostics last published for the document

vars == <<fam, text, nfrags, opened, version, cache, lastSuccess, out, languageId,
          diagnostics>>

\* The result of a request: op is "hover" or "complete", outcome is
\* "resolved" or "rejected" (the promise) or "thrown" (the call itself
\* threw); raised tells that an error was raised while the result was
\* computed; value holds the suggestions, rendered the node a hover shows.
Result(op, pos, outcome, raised, value, rendered) ==
  [op |-> op, line |-> pos.line, column |-> pos.column, outcome |-> outcome,
   raised |-> raised, value |-> value, rendered |-> rendered]

\* No request is being answered.
NoOut == Result("none", Location(0, 0), "none", FALSE, {}, NoHandle)

\* The cursor positions of requests: every column of line 1 up to two past
\* the text, and a line the text does not have.
Cursors(txt) == {Location(1, c) : c \in 1..(Len(txt) + 2)} \cup {Location(2, 1)}

\* The number of annotation passes a tree has received.
Passes(ann) == IF <<>> \in DOMAIN ann THEN ann[<<>>].writes ELSE 0

\* The position of an editor: a line and a character, both 0-based.
Position(line, character) == [line |-> line, character |-> character]

\* Nothing has been published for the document.
NotPublished == [published |-> FALSE, list |-> <<>>]

\* connection.sendDiagnostics: the list published for the document.
Published(list) == [published |-> TRUE, list |-> list]

\* failureToDiagnostic as it would be if the location of the failure were
\* published as it is, 1-based.
failureToDiagnosticOneBased(err) ==
  LET begin == Location(1, err.loc.b)
      end == Location(1, err.loc.e)
  IN  [severity |-> "Error",
       range |-> [start |-> Position(begin.line, begin.column),
                  end |-> Position(end.line, end.column)],
       message |-> err.msg,
       source |-> "Jsonnet"]

\* failureToDiagnostic: the Error diagnostic of a lex or parse failure, its
\* range the location of the failure with lines and columns made 0-based.
\* Every location of the model is on line 1.
failureToDiagnostic(err) ==
  LET begin == Location(1, err.loc.b)
      end == Location(1, err.loc.e)
  IN  [severity |-> "Error",
       range |-> [start |-> Position(begin.line - 1, begin.column - 1),
                  end |-> Position(end.line - 1, end.column - 1)],
       message |-> err.msg,
       source |-> "Jsonnet"]

\* The language of the documents the server analyses, and another one.
Languages == {"jsonnet", "plaintext"}

InitWithLanguages(families, languages) ==
  /\ fam \in families
  /\ languageId \in languages
  /\ text = <<>>
  /\ nfrags = 0
  /\ opened = FALSE
  /\ version = 0
  /\ cache = NoDoc
  /\ lastSuccess = NoDoc
  /\ out = NoOut
  /\ diagnostics = NotPublished

InitWith(families) == InitWithLanguages(families, {"jsonnet"})

Init == InitWith(Families)

\* The compiler-service state after cache(uri, text, version).
CacheUpdate(txt, ver) ==
  \E doc \in {Cache(cache, txt, ver)} :
    /\ cache' = doc
    /\ lastSuccess' = IF doc.kind = "ok" THEN doc ELSE lastSuccess

\* generateDiagnostics: caches the parse of the text and publishes no
\* diagnostic when it is a parsed document, the diagnostic of the failure
\* otherwise.
generateDiagnostics(txt, ver) ==
  \E doc \in {Cache(cache, txt, ver)} :
    /\ cache' = doc
    /\ lastSuccess' = IF doc.kind = "ok" THEN doc ELSE lastSuccess
    /\ diagnostics' = IF doc.kind = "ok" THEN Published(<<>>)
                      ELSE Published(<<failureToDiagnostic(doc.err)>>)

\* docs.onDidOpen for a new, empty document: for a jsonnet document,
\* generateDiagnostics and analyzer.onDocumentOpen, both of which call
\* compiler.cache with the same version.
DidOpen ==
  /\ ~opened
  /\ out = NoOut
  /\ opened' = TRUE
  /\ version' = 1
  /\ IF languageId = "jsonnet" THEN generateDiagnostics(text, 1)
     ELSE UNCHANGED <<cache, lastSuccess, diagnostics>>
  /\ UNCHANGED <<fam, text, nfrags, out, languageId>>

\* docs.onDidSave: for a jsonnet document, generateDiagnostics and
\* analyzer.onDocumentOpen on the text and version the editor holds.
DidSave ==
  /\ opened
  /\ out = NoOut
  /\ IF languageId = "jsonnet" THEN generateDiagnostics(text, version)
     ELSE UNCHANGED <<cache, lastSuccess, diagnostics>>
  /\ UNCHANGED <<fam, text, nfrags, opened, version, out, languageId>>

\* docs.onDidChangeContent after the user typed fragment f.
DidChangeContent(f) ==
  /\ opened
  /\ out = NoOut
  /\ nfrags < MaxFrags
  /\ text' = text \o f
  /\ nfrags' = nfrags + 1
  /\ version' = version + 1
  /\ IF languageId = "jsonnet" THEN generateDiagnostics(text \o f, version + 1)
     ELSE UNCHANGED <<cache, lastSuccess, diagnostics>>
  /\ UNCHANGED <<fam, opened, out, languageId>>

\* docs.onDidClose: analyzer.onDocumentClose = compilerService.delete.  The
\* closed document is dropped by the editor as well.
DidClose ==
  /\ opened
  /\ out = NoOut
  /\ opened' = FALSE
  /\ version' = 0
  /\ text' = <<>>
  /\ nfrags' = 0
  /\ IF languageId = "jsonnet" THEN cache' = NoDoc /\ lastSuccess' = NoDoc
     ELSE UNCHANGED <<cache, lastSuccess>>
  /\ UNCHANGED <<fam, out, languageId, diagnostics>>

\* connection.onHover: analyzer.onHover at the cursor.
OnHover(pos) ==
  /\ opened
  /\ out = NoOut
  /\ \E r \in {onHover(cache, text, version, pos)} :
       out' = Result("hover", pos, r.outcome, r.outcome = "thrown", {}, r.rendered)
  /\ CacheUpdate(text, version)
  /\ UNCHANGED <<fam, text, nfrags, opened, version, languageId, diagnostics>>

\* connection.onCompletion: analyzer.onComplete at the cursor.  The
\* annotation of the recovered tree of a failed parse is part of the call.
OnComplete(pos) ==
  /\ opened
  /\ out = NoOut
  /\ cache.kind = "ok" \/ Passes(cache.ann) < MaxWrites
  /\ \E r \in {onComplete(cache, lastSuccess, text, version, pos)} :
       \E doc \in {[Cache(cache, text, version) EXCEPT !.ann = r.ann]} :
         /\ out' = Result("complete", pos, r.outcome, r.raised, r.list, NoHandle)
         /\ cache' = doc
         /\ lastSuccess' = IF doc.kind = "ok" THEN doc ELSE lastSuccess
  /\ UNCHANGED <<fam, text, nfrags, opened, version, languageId, diagnostics>>

\* The result of the request reaches the editor.
Respond ==
  /\ out # NoOut
  /\ out' = NoOut
  /\ UNCHANGED <<fam, text, nfrags, opened, version, cache, lastSuccess, languageId,
                 diagnostics>>

Next ==
  \/ DidOpen
  \/ \E f \in fam : DidChangeContent(f)
  \/ DidSave
  \/ DidClose
  \/ \E pos \in Cursors(text) : OnHover(pos)
  \/ \E pos \in Cursors(text) : OnComplete(pos)
  \/ Respond

Spec == Init /\ [][Next]_vars

\* The editing of documents alone, over all the parser's families.
ParserInit == InitWith(ParserFamilies)

ParserNext ==
  \/ DidOpen
  \/ \E f \in fam : DidChangeContent(f)
  \/ DidClose

ParserSpec == ParserInit /\ [][ParserNext]_vars

\* The editing of documents alone, over the families that take the parser
\* through its loops.
GrammarInit == InitWith(GrammarFamilies)

GrammarNext ==
  \/ DidOpen
  \/ \E f \in fam : DidChangeContent(f)
  \/ DidClose

GrammarSpec == GrammarInit /\ [][GrammarNext]_vars

\* The document events of the server, for documents of either language.
ServerInit == InitWithLanguages(ServerFamilies, Languages)

ServerNext ==
  \/ DidOpen
  \/ \E f \in fam : DidChangeContent(f)
  \/ DidSave
  \/ DidClose

ServerSpec == ServerInit /\ [][ServerNext]_vars

\* ---------------------------------------------------------------------
\* Properties.

\* The tokens of the cached text (which lexes when they are used).
Tokens == Lex(cache.text).v

\* The cached text was lexed and handed to the parser.
WasParsed == cache.kind \in {"ok", "parseFailure"}

\* The variable `name` written in column i.
VarAt(name, i) == Var(Identifier(name, TokenLoc(i)), TokenLoc(i))

\* C1: a hover request on a document whose text fails to lex or parse is
\* answered by a resolved promise with empty contents, at every cursor
\* position: the call neither throws nor rejects.
C1_HoverOnFailedDocument ==
  (out.op = "hover" /\ cache.kind \in {"lexFailure", "parseFailure"})
    => (out.outcome = "resolved" /\ out.rendered = NoHandle)

\* C2: a completion request always ends in a promise resolved to a list of
\* suggestions, and the list is empty whenever an error was raised while
\* it was computed (a cursor on a line the text does not have included).
C2_CompleteAlwaysResolves ==
  out.op = "complete" => (out.outcome = "resolved" /\ (out.raised => out.value = {}))

\* An error was raised for a completion request.
C2_Witness == out.op = "complete" /\ out.raised /\ out.outcome = "resolved"

\* C3: parent and env of every node, the nodes of the `rest` tree of a
\* failed parse included, are assigned exactly once, however many requests
\* are served for the document version.
C3_AssignedOnce ==
  /\ \A path \in DOMAIN cache.ann : cache.ann[path].writes = 1
  /\ \A path \in DOMAIN lastSuccess.ann : lastSuccess.ann[path].writes = 1

\* The kinds of field whose key is literal.
LiteralKinds == {"ObjectFieldID", "ObjectFieldStr"}

\* The literal name of a field with a literal key.
FieldName(f) == IF f.kind = "ObjectFieldID" THEN f.id.name ELSE f.expr1.value

\* The literal field names of the object are pairwise distinct.
DistinctLiteralNames(obj) ==
  \A i, j \in 1..Len(obj.fields) :
    (i < j /\ obj.fields[i].kind \in LiteralKinds /\ obj.fields[j].kind \in LiteralKinds)
      => FieldName(obj.fields[i]) # FieldName(obj.fields[j])

\* Token i of t is a literal key of a field: an identifier or a string
\* after `{` or `,` and before `:`, `::` or `:::`.
IsKey(t, i) ==
  /\ 1 < i /\ i < Len(t)
  /\ t[i].kind \in {"TokenIdentifier", "TokenStringDouble"}
  /\ t[i - 1].kind \in {"TokenBraceL", "TokenComma"}
  /\ t[i + 1].kind = "TokenOperator" /\ t[i + 1].data \in {":", "::", ":::"}

\* Token j of t is a literal key with the text of an earlier literal key of
\* the object that opens t, and the parser reaches it: the fields before it
\* are those of that object and declare no local twice.
IsLaterKey(t, j) ==
  /\ t[1].kind = "TokenBraceL"
  /\ IsKey(t, j)
  /\ \E i \in 2..(j - 1) : IsKey(t, i) /\ t[i].data = t[j].data
  /\ \A i \in 2..(j - 1) : t[i].kind \notin {"TokenBraceL", "TokenBraceR"}
  /\ \A i, k \in 2..(j - 1) :
       (i < k /\ t[i].kind = "TokenLocal" /\ t[k].kind = "TokenLocal")
         => t[i + 1].data # t[k + 1].data

\* The first literal key of t that repeats an earlier one.
FirstLaterKey(t) ==
  CHOOSE j \in 1..Len(t) : IsLaterKey(t, j) /\ \A k \in 1..(j - 1) : ~IsLaterKey(t, k)

\* `{ a : 1 , [ a ] : 1 , }`: a literal key and a computed key of the same text.
LiteralAndComputedKey ==
  <<Kw("TokenBraceL"), Id("a"), Op(":"), Num, Kw("TokenComma"),
    Kw("TokenBracketL"), Id("a"), Kw("TokenBracketR"), Op(":"), Num, Kw("TokenComma"),
    Kw("TokenBraceR")>>

\* C4: an object with two literal keys of the same text does not parse: the
\* error is 'Duplicate field', located at the later key.  The literal field
\* names of every object of a successful parse are pairwise distinct, and a
\* computed key may repeat a literal one.
C4_DuplicateField ==
  /\ cache.kind = "ok" =>
       \A path \in Paths(cache.root) :
         NodeAt(cache.root, path).type = "ObjectNode"
           => DistinctLiteralNames(NodeAt(cache.root, path))
  /\ (WasParsed /\ \E j \in 1..Len(Tokens) : IsLaterKey(Tokens, j)) =>
       /\ cache.kind = "parseFailure"
       /\ cache.err.msg = "Duplicate field"
       /\ cache.err.loc = TokenLoc(FirstLaterKey(Tokens))
  /\ cache.text = LiteralAndComputedKey =>
       (cache.kind = "ok" /\ Len(cache.root.fields) = 2)

\* A string key repeats an identifier key and the parse fails at the string.
C4_Witness ==
  /\ cache.kind = "parseFailure"
  /\ cache.err.msg = "Duplicate field"
  /\ Tokens[cache.err.loc.b].kind = "TokenStringDouble"
  /\ IsLaterKey(Tokens, cache.err.loc.b)

\* The parse failed at the token after a `.` that follows an expression,
\* and that token is no identifier.
DotWithoutIdentifier ==
  /\ cache.kind = "parseFailure"
  /\ cache.err.msg = "Expected token"
  /\ LET j == cache.err.loc.b
     IN  /\ 3 <= j /\ j <= Len(Tokens)
         /\ Tokens[j - 1].kind = "TokenDot"
         /\ Tokens[j].kind # "TokenIdentifier"
         /\ Tokens[j - 2].kind # "TokenSuper"

\* The tokens b .. e of t, followed by the end of the file.
TokensOf(t, b, e) ==
  SubSeq(t, b, e) \o <<[kind |-> "TokenEndOfFile", data |-> "", loc |-> TokenLoc(e + 1)]>>

\* C5: when a `.` is not followed by an identifier, the error Parse returns
\* carries as `rest` the expression before the dot: the tree of the tokens
\* from its first token to the token before the dot, earlier postfix
\* operations included, whatever productions enclose it.
C5_RestIsOperandOfDot ==
  DotWithoutIdentifier =>
    LET j == cache.err.loc.b
        rest == cache.err.rest
    IN  /\ ~IsNull(rest)
        /\ LET alone == Parse(TokensOf(Tokens, rest.loc.b, j - 2))
           IN  alone.ok /\ alone.v = rest

\* The rest is an index expression inside an enclosing production.
C5_Witness ==
  /\ DotWithoutIdentifier
  /\ cache.err.rest.type = "IndexNode"

\* The bind loop of a `local` that starts at token p - 1 of t, up to the
\* token where `,` or `;` is required: hit tells that another token is
\* there, body is the body of the last binding, delim that token.
RECURSIVE UnterminatedLocal(_, _, _)
UnterminatedLocal(t, p, binds) ==
  LET newBinds == parseBind(t, p, binds)
      delim == Get(t, newBinds.p)
  IN  IF ~newBinds.ok \/ delim.kind = "TokenSemicolon"
        THEN [hit |-> FALSE, body |-> Null, delim |-> UndefinedTok]
      ELSE IF delim.kind = "TokenComma"
        THEN UnterminatedLocal(t, newBinds.p + 1, newBinds.v)
      ELSE [hit |-> TRUE, body |-> newBinds.v[Len(newBinds.v)].body, delim |-> delim]

\* The cached text is a `local` whose bind loop met an unexpected token.
LocalCase ==
  IF WasParsed /\ Tokens[1].kind = "TokenLocal"
    THEN UnterminatedLocal(Tokens, 2, <<>>)
    ELSE [hit |-> FALSE, body |-> Null, delim |-> UndefinedTok]

\* C6 as stated: the error of an unexpected token in place of the `,` or
\* `;` of a local carries the body of the last binding as its rest,
\* whatever the shape of the body.
C6_RestIsLastBody ==
  LocalCase.hit => (cache.kind = "parseFailure" /\ cache.err.rest = LocalCase.body)

\* C6: the error of an unexpected token in place of the `,` or `;` of a
\* local is located at that token; its rest is the body of the last binding
\* when the body is a variable, the right operand when the body is
\* `e + variable`, and absent for a body of any other shape.
C6_RestIsVariableOfLastBody ==
  LocalCase.hit =>
    LET body == LocalCase.body
    IN  /\ cache.kind = "parseFailure"
        /\ cache.err.msg = "Expected , or ;"
        /\ cache.err.loc = LocalCase.delim.loc
        /\ IF body.type = "VarNode" THEN cache.err.rest = body
           ELSE IF body.type = "BinaryNode" /\ body.op = "BopPlus" /\ body.right.type = "VarNode"
             THEN cache.err.rest = body.right
           ELSE IsNull(cache.err.rest)

\* The body of the last binding is `b + c` and the rest is `c`.
C6_Witness ==
  /\ LocalCase.hit
  /\ LocalCase.body.type = "BinaryNode"
  /\ cache.err.rest.type = "VarNode"

\* The cached text is `a o1 a o2 a` for two binary operators.
TwoOperators ==
  /\ Len(cache.text) = 5
  /\ \A i \in {1, 3, 5} : cache.text[i] = Id("a")
  /\ \A i \in {2, 4} : cache.text[i].kind = "TokenOperator" /\ cache.text[i].data \in DOMAIN BopMap

\* C7: `a o1 a o2 a` parses as `(a o1 a) o2 a` when o1 and o2 are on the
\* same level of bopPrecedence or o1 is on a tighter one, and as
\* `a o1 (a o2 a)` when o2 is on a tighter level, for every pair of binary
\* operators.
C7_PrecedenceClimbing ==
  TwoOperators =>
    LET b1 == BopMap[cache.text[2].data]
        b2 == BopMap[cache.text[4].data]
        root == cache.root
    IN  /\ cache.kind = "ok"
        /\ root.type = "BinaryNode"
        /\ IF bopPrecedence[b2] < bopPrecedence[b1]
             THEN /\ root.op = b1
                  /\ root.left = VarAt("a", 1)
                  /\ root.right.type = "BinaryNode"
                  /\ root.right.op = b2
                  /\ root.right.left = VarAt("a", 3)
                  /\ root.right.right = VarAt("a", 5)
             ELSE /\ root.op = b2
                  /\ root.right = VarAt("a", 5)
                  /\ root.left.type = "BinaryNode"
                  /\ root.left.op = b1
                  /\ root.left.left = VarAt("a", 1)
                  /\ root.left.right = VarAt("a", 3)

\* The second operator is the tighter one and sits below the first.
C7_Witness ==
  /\ TwoOperators
  /\ bopPrecedence[BopMap[cache.text[4].data]] < bopPrecedence[BopMap[cache.text[2].data]]
  /\ cache.root.right.type = "BinaryNode"

\* The node a postfix operation makes.
PostfixType(f) ==
  CASE f[1].kind = "TokenParenL" -> "ApplyNode"
    [] f[1].kind = "TokenBraceL" -> "ApplyBraceNode"
    [] OTHER -> "IndexNode"

\* The operand a postfix node is applied to.
Target(n) == IF n.type = "ApplyBraceNode" THEN n.left ELSE n.target

\* C8: in `x o y<postfix>` and `o y<postfix>` the postfix operation (call,
\* subscript, dot-index, brace application) is applied to y alone and the
\* operator node is the root, for every binary and unary operator o; in
\* `y<postfix1><postfix2>` the second operation is applied to the result of
\* the first.
C8_PostfixBindsTightest ==
  /\ \A o \in DOMAIN BopMap, f \in PostfixOperations :
       cache.text = <<Id("x"), Op(o), Id("y")>> \o f =>
         /\ cache.kind = "ok"
         /\ cache.root.type = "BinaryNode"
         /\ cache.root.op = BopMap[o]
         /\ cache.root.left = VarAt("x", 1)
         /\ cache.root.right.type = PostfixType(f)
         /\ Target(cache.root.right) = VarAt("y", 3)
  /\ \A o \in DOMAIN UopMap, f \in PostfixOperations :
       cache.text = <<Op(o), Id("y")>> \o f =>
         /\ cache.kind = "ok"
         /\ cache.root.type = "UnaryNode"
         /\ cache.root.op = UopMap[o]
         /\ cache.root.expr.type = PostfixType(f)
         /\ Target(cache.root.expr) = VarAt("y", 2)
  /\ \A f, g \in PostfixOperations :
       cache.text = <<Id("y")>> \o f \o g =>
         /\ cache.kind = "ok"
         /\ cache.root.type = PostfixType(g)
         /\ Target(cache.root).type = PostfixType(f)
         /\ Target(Target(cache.root)) = VarAt("y", 1)

\* `x * y . f` parsed with the index below the multiplication.
C8_Witness ==
  /\ cache.text = <<Id("x"), Op("*"), Id("y"), Kw("TokenDot"), Id("f")>>
  /\ cache.kind = "ok"
  /\ cache.root.type = "BinaryNode"
  /\ cache.root.right.type = "IndexNode"

\* The cached text starts with `import` or `importstr`.
StartsWithImport ==
  /\ WasParsed
  /\ Tokens[1].kind \in {"TokenImport", "TokenImportStr"}

\* C9: a text `import e` or `importstr e` parses only when the expression
\* parsed after the keyword is a string literal node, and then to the
\* Import or ImportStr of its value; for any other expression parsed there
\* Parse returns the error 'Computed imports are not allowed'.
C9_ImportOfLiteralOnly ==
  StartsWithImport =>
    LET body == parse(Tokens, 2, maxPrecedence, <<>>)
    IN  /\ (body.ok /\ body.v.type # "LiteralStringNode") =>
             /\ cache.kind = "parseFailure"
             /\ cache.err.msg = "Computed imports are not allowed"
        /\ cache.kind = "ok" =>
             /\ body.ok
             /\ body.v.type = "LiteralStringNode"
             /\ cache.root.type = (IF Tokens[1].kind = "TokenImport"
                                     THEN "ImportNode" ELSE "ImportStrNode")
             /\ cache.root.file = body.v.value

\* A string literal combined with an operator or a postfix is refused.
C9_Witness ==
  /\ StartsWithImport
  /\ Tokens[2].kind = "TokenStringDouble"
  /\ cache.kind = "parseFailure"
  /\ cache.err.msg = "Computed imports are not allowed"

\* C10 as stated: the `rest` tree of a parse error has been through the
\* annotation visitor when Parse has returned.
C10_RestAnnotatedByParse ==
  (cache.kind = "parseFailure" /\ ~IsNull(cache.err.rest))
    => DOMAIN cache.ann = Paths(cache.err.rest)

\* C10: Parse annotates the root of a successful parse before it returns
\* and leaves the `rest` tree of a parse error without annotations; that
\* tree is annotated only by a completion request served afterwards.
C10_ParseAnnotatesRootOnly ==
  [][/\ version' # version =>
          IF cache'.kind = "ok"
            THEN DOMAIN cache'.ann = Paths(cache'.root)
            ELSE cache'.ann = NoAnnotations
     /\ (cache'.kind = "parseFailure" /\ cache'.ann # NoAnnotations /\ cache'.ann # cache.ann)
          => out'.op = "complete"]_vars

\* The rest of a failed parse, annotated by a completion request.
C10_Witness ==
  /\ cache.kind = "parseFailure"
  /\ ~IsNull(cache.err.rest)
  /\ DOMAIN cache.ann = Paths(cache.err.rest)
  /\ out.op = "complete"

\* C11: a completion request on a document that does not parse, while no
\* successful parse of it has been recorded, gets no suggestions, whatever
\* the failure and the cursor.
C11_NoLastSuccessNoSuggestions ==
  (out.op = "complete" /\ cache.kind \in {"lexFailure", "parseFailure"}
     /\ lastSuccess.kind = "none")
    => out.value = {}

\* A completion right after the dot of a failed parse that recovered an
\* object with fields, with no successful parse on record.
C11_Witness ==
  /\ out.op = "complete"
  /\ cache.kind = "parseFailure"
  /\ lastSuccess.kind = "none"
  /\ ~IsNull(cache.err.rest)
  /\ cache.err.rest.type = "ObjectNode"
  /\ out.line = 1
  /\ out.column = cache.err.rest.loc.e + 1
  /\ out.value = {}

\* The cursor of the request lies in the range of the tree, or on the line
\* of its end and one column past it.
CursorAtRest(o, rest) ==
  \/ inRange(Location(o.line, o.column), rest.loc)
  \/ (o.line = 1 /\ o.column = rest.loc.e + 1)

\* C12: a completion request on a document whose parse failed with a
\* recovered tree `rest`, at a cursor that is neither inside the range of
\* `rest` nor one column past its end, gets the empty list; the request
\* raises no error on the one line of the text and leaves `rest` as it was:
\* the last successful parse is not consulted and `rest` is not annotated.
C12_OutsideRestNoSuggestions ==
  [][(/\ out.op = "none"
      /\ out'.op = "complete"
      /\ cache'.kind = "parseFailure"
      /\ ~IsNull(cache'.err.rest)
      /\ ~CursorAtRest(out', cache'.err.rest))
       => (/\ out'.value = {}
           /\ cache'.ann = cache.ann
           /\ (out'.line = 1 => ~out'.raised))]_vars

\* A completion away from the recovered tree while a successful parse is on
\* record.
C12_Witness ==
  /\ out.op = "complete"
  /\ cache.kind = "parseFailure"
  /\ ~IsNull(cache.err.rest)
  /\ lastSuccess.kind = "ok"
  /\ out.line = 1
  /\ ~CursorAtRest(out, cache.err.rest)
  /\ out.value = {}
  /\ ~out.raised

\* The character before the cursor of the request is a dot.
DotBefore(o) ==
  /\ o.line = 1
  /\ (o.column - 1) \in 1..Len(cache.text)
  /\ cache.text[o.column - 1].kind = "TokenDot"

\* The trees a request on the cached document works on: the recovered tree
\* of a failed parse beside the last successful parse, or the parsed tree.
RestContext == Context(cache.err.rest, cache.ann, lastSuccess.root, lastSuccess.ann)

RootContext == Context(cache.root, cache.ann, cache.root, cache.ann)

\* The node resolves to a field-bearing value: an object or a mixin of
\* field-bearing values.
FieldBearing(ctx, h) == tryResolveIndirections(ctx, h, MaxResolve).kind = "IndexedObjectFields"

\* The fields of the value the node resolves to, by name.
FieldsOf(ctx, h) == tryResolveIndirections(ctx, h, MaxResolve).fields

\* One suggestion per field that is not `local`: its name, and Method for a
\* method-sugared field, Field otherwise.
Suggested(ctx, fields) ==
  {CompletionInfo(x, IF HNode(ctx, fields[x]).methodSugar THEN "Method" ELSE "Field") :
     x \in {y \in DOMAIN fields : HNode(ctx, fields[y]).kind # "ObjectLocal"}}

\* The expressions of the parsed tree that end where the dot before column
\* c begins: the targets of the indexes `target . id` with id at column c.
LeftOfDot(c) ==
  {Handle("cur", p \o <<1>>) :
     p \in {q \in Paths(cache.root) :
              LET n == NodeAt(cache.root, q)
              IN  /\ n.type = "IndexNode"
                  /\ ~IsNull(n.target)
                  /\ ~IsNull(n.id)
                  /\ n.target.loc.e = c - 1}}

\* The completion of a failed parse right after the dot that follows the
\* recovered tree, when that tree resolves to a field-bearing value: the
\* suggestions are the fields of the value.
DotCompletesFieldsOfRest ==
  (/\ out.op = "complete"
   /\ DotBefore(out)
   /\ cache.kind = "parseFailure"
   /\ ~IsNull(cache.err.rest)
   /\ out.column = cache.err.rest.loc.e + 1
   /\ lastSuccess.kind = "ok"
   /\ FieldBearing(RestContext, Handle("cur", <<>>)))
    => out.value = Suggested(RestContext, FieldsOf(RestContext, Handle("cur", <<>>)))

\* The completion of a parsed document right after a dot, when the
\* expression left of the dot resolves to a field-bearing value: the
\* suggestions are the fields of the value.
DotCompletesFieldsOfTarget ==
  (out.op = "complete" /\ DotBefore(out) /\ cache.kind = "ok")
    => \A h \in LeftOfDot(out.column) :
         FieldBearing(RootContext, h)
           => out.value = Suggested(RootContext, FieldsOf(RootContext, h))

\* C13: a completion request right after a dot, when the expression left
\* of the dot resolves to a field-bearing value (an object or a mixin of
\* objects), gets exactly one suggestion per field of the value that is not
\* `local`: the name of the field, of kind Method for a method-sugared field
\* and Field otherwise.
C13_DotCompletesFields == DotCompletesFieldsOfRest /\ DotCompletesFieldsOfTarget

\* The node a completion request on the cached document is computed from,
\* with the trees it is resolved in: the recovered tree of a failed parse
\* when the cursor is at it and a successful parse is on record; the
\* identifier found at the cursor of a parsed document, or the node the
\* locator falls back to past the end of the line.  Empty when the request
\* is answered without resolving a node.
CompletionNodes(o) ==
  IF o.line # 1 THEN {}
  ELSE IF cache.kind = "parseFailure"
    THEN IF /\ ~IsNull(cache.err.rest)
            /\ CursorAtRest(o, cache.err.rest)
            /\ lastSuccess.kind = "ok"
            /\ DOMAIN cache.ann = Paths(cache.err.rest)
           THEN {[ctx |-> RestContext, h |-> Handle("cur", <<>>)]}
           ELSE {}
  ELSE IF cache.kind = "ok"
    THEN LET found == getNodeAtPositionFromAst(cache.root, Location(o.line, o.column))
         IN  IF found.kind = "Found"
               THEN {[ctx |-> RootContext, h |-> Handle("cur", found.node.path)]}
             ELSE IF found.kind = "AfterLineEnd"
               THEN {[ctx |-> RootContext,
                      h |-> Handle("cur", IF found.terminalNodeOnCursorLine # NoNode
                                            THEN found.terminalNodeOnCursorLine.path
                                            ELSE found.tightestEnclosingNode.path)]}
             ELSE {}
  ELSE {}

\* How far the node resolves.
ResolutionOf(n) == tryResolveIndirections(n.ctx, n.h, MaxResolve)

\* C14: a completion request whose cursor does not follow a dot, on a node
\* that resolves completely (to a function, a free variable, a field set
\* or any other node), gets the empty list.
C14_NoDotNoSuggestions ==
  (out.op = "complete" /\ ~DotBefore(out))
    => \A n \in CompletionNodes(out) :
         ResolutionOf(n).kind \in {"ResolvedFunction", "ResolvedFreeVar",
                                   "IndexedObjectFields", "Node"}
           => out.value = {}

\* A completion without a dot on a node that resolves to a value with
\* fields that are not `local`.
C14_Witness ==
  /\ out.op = "complete"
  /\ ~DotBefore(out)
  /\ out.value = {}
  /\ \E n \in CompletionNodes(out) :
       /\ ResolutionOf(n).kind = "IndexedObjectFields"
       /\ Suggested(n.ctx, ResolutionOf(n).fields) # {}

\* The names of the environment of the node, as suggestions.
EnvSuggestions(n) ==
  IF HasEnv(n.ctx, n.h) THEN {CompletionInfo(x, "Variable") : x \in DOMAIN HEnv(n.ctx, n.h)}
  ELSE {}

\* The original statement of C15: a completion request on an index whose
\* target resolves but whose id does not gets the names of the environment;
\* on an index chain with a target that does not resolve it gets nothing.
C15_IndexIdFromEnvironment ==
  out.op = "complete"
    => \A n \in CompletionNodes(out) :
         /\ ResolutionOf(n).kind = "UnresolvedIndexId" => out.value = EnvSuggestions(n)
         /\ ResolutionOf(n).kind = "UnresolvedIndexTarget" => out.value = {}

\* C15: a completion request on an index whose target resolves but whose
\* id does not gets the fields of the resolved target that are not `local`;
\* on a node that does not resolve at all it gets the names of the
\* environment, of kind Variable; on an index chain with a target that does
\* not resolve it gets nothing.
C15_IndexIdFromTargetFields ==
  out.op = "complete"
    => \A n \in CompletionNodes(out) :
         /\ ResolutionOf(n).kind = "UnresolvedIndexId"
              => out.value = Suggested(n.ctx, ResolutionOf(n).fields)
         /\ ResolutionOf(n).kind = "Unresolved" => out.value = EnvSuggestions(n)
         /\ ResolutionOf(n).kind = "UnresolvedIndexTarget" => out.value = {}

\* A completion on an index whose target resolves to a value with fields
\* while its id names none of them, in a scope with names.
C15_Witness ==
  /\ out.op = "complete"
  /\ \E n \in CompletionNodes(out) :
       /\ ResolutionOf(n).kind = "UnresolvedIndexId"
       /\ EnvSuggestions(n) # {}
       /\ out.value = Suggested(n.ctx, ResolutionOf(n).fields)
       /\ out.value # {}

\* A completion on an index whose target does not resolve.
UnresolvedTargetReached ==
  /\ out.op = "complete"
  /\ \E n \in CompletionNodes(out) : ResolutionOf(n).kind = "UnresolvedIndexTarget"

\* A completion on a node that does not resolve, in a scope with names.
UnresolvedReached ==
  /\ out.op = "complete"
  /\ \E n \in CompletionNodes(out) :
       ResolutionOf(n).kind = "Unresolved" /\ EnvSuggestions(n) # {}

\* The mixins `l + r` of the parsed tree.
Mixins ==
  {Handle("cur", p) :
     p \in {q \in Paths(cache.root) :
              /\ NodeAt(cache.root, q).type = "BinaryNode"
              /\ NodeAt(cache.root, q).op = "BopPlus"}}

\* The field set of operand i of the mixin, once the operand is resolved.
OperandFields(h, i) ==
  LET operand == resolveIndirections(RootContext, HChild(h, i), MaxResolve)
  IN  IF operand.kind = "Node" THEN createFieldSet(RootContext, operand.h, MaxResolve)
      ELSE operand

\* Both operands of the mixin resolve to field-bearing values.
FieldBearingOperands(h) ==
  OperandFields(h, 1).kind = "Fields" /\ OperandFields(h, 2).kind = "Fields"

\* The field a name stands for in a mixin of the field sets l and r: the
\* field of r when r has the name, the field of l otherwise.
RightBiased(l, r, x) == IF x \in DOMAIN r THEN r[x] ELSE l[x]

\* The index `target . id` whose id the hover points at, if any.
HoveredIndexes(o) ==
  IF cache.kind # "ok" THEN {}
  ELSE LET found == getNodeAtPositionFromAst(cache.root, Location(o.line, o.column))
       IN  IF found.kind # "Found" \/ Len(found.node.path) = 0 THEN {}
           ELSE LET p == Front(found.node.path)
                    n == NodeAt(cache.root, p)
                IN  IF /\ n.type = "IndexNode" /\ ~IsNull(n.target) /\ ~IsNull(n.id)
                       /\ found.node.path = p \o <<Len(Kids(n))>>
                      THEN {Handle("cur", p)}
                      ELSE {}

\* The complete indexes `target . id` of the parsed tree.
Indexes ==
  {Handle("cur", p) :
     p \in {q \in Paths(cache.root) :
              /\ NodeAt(cache.root, q).type = "IndexNode"
              /\ ~IsNull(NodeAt(cache.root, q).target)
              /\ ~IsNull(NodeAt(cache.root, q).id)}}

\* The value the target of the index resolves to, as resolveIndex finds it:
\* a variable with the `local` wrappers of its value stripped, or an index.
TargetValue(h) ==
  LET target == HChild(h, 1)
      type == HNode(RootContext, target).type
  IN  IF type = "VarNode"
        THEN LET r == resolveVar(RootContext, target, MaxResolve)
             IN  IF r.kind = "Node" THEN RNode(StripLocals(RootContext, r.h)) ELSE r
      ELSE IF type = "IndexNode" THEN resolveIndex(RootContext, target, MaxResolve)
      ELSE RNull

\* The target of the index resolves to a mixin.
TargetIsMixin(h) == TargetValue(h).kind = "Node" /\ TargetValue(h).h \in Mixins

\* C16: the field set of a mixin `l + r` whose operands resolve to
\* field-bearing values has the names of both operands, and a name stands
\* for the field of r when r has it and for the field of l otherwise, in a
\* nested mixin as well; a hover on the id of an index whose target is such
\* a mixin, the id naming one of its fields, shows that field (the value
\* the index resolves to is the value of that field).
C16_MixinRightBias ==
  /\ cache.kind = "ok"
       => \A h \in Mixins :
            FieldBearingOperands(h)
              => LET l == OperandFields(h, 1).fields
                     r == OperandFields(h, 2).fields
                     merged == createFieldSet(RootContext, h, MaxResolve)
                 IN  /\ merged.kind = "Fields"
                     /\ DOMAIN merged.fields = DOMAIN l \cup DOMAIN r
                     /\ \A x \in DOMAIN merged.fields :
                          merged.fields[x] = RightBiased(l, r, x)
  /\ cache.kind = "ok"
       => \A h \in Indexes :
            (/\ TargetIsMixin(h)
             /\ FieldBearingOperands(TargetValue(h).h)
             /\ HNode(RootContext, h).id.name
                  \in DOMAIN OperandFields(TargetValue(h).h, 1).fields
                        \cup DOMAIN OperandFields(TargetValue(h).h, 2).fields)
              => resolveIndex(RootContext, h, MaxResolve)
                   = RNode(Expr2OfField(RootContext,
                             RightBiased(OperandFields(TargetValue(h).h, 1).fields,
                                         OperandFields(TargetValue(h).h, 2).fields,
                                         HNode(RootContext, h).id.name)))
  /\ out.op = "hover"
       => \A h \in HoveredIndexes(out) :
            (/\ TargetIsMixin(h)
             /\ FieldBearingOperands(TargetValue(h).h)
             /\ HNode(RootContext, h).id.name
                  \in DOMAIN OperandFields(TargetValue(h).h, 1).fields
                        \cup DOMAIN OperandFields(TargetValue(h).h, 2).fields)
              => /\ out.outcome = "resolved"
                 /\ out.rendered = RightBiased(OperandFields(TargetValue(h).h, 1).fields,
                                               OperandFields(TargetValue(h).h, 2).fields,
                                               HNode(RootContext, h).id.name)

\* A hover on the id of an index into a mixin whose operands both have a
\* field of that name: the field of the right operand is shown.
C16_Witness ==
  /\ out.op = "hover"
  /\ \E h \in HoveredIndexes(out) :
       /\ TargetIsMixin(h)
       /\ FieldBearingOperands(TargetValue(h).h)
       /\ HNode(RootContext, h).id.name \in DOMAIN OperandFields(TargetValue(h).h, 1).fields
       /\ HNode(RootContext, h).id.name \in DOMAIN OperandFields(TargetValue(h).h, 2).fields
       /\ out.rendered = OperandFields(TargetValue(h).h, 2).fields[HNode(RootContext, h).id.name]

\* A mixin nested in an operand of a mixin, both with field-bearing operands.
NestedMixinReached ==
  /\ cache.kind = "ok"
  /\ \E h \in Mixins :
       /\ HChild(h, 1) \in Mixins
       /\ FieldBearingOperands(h)
       /\ FieldBearingOperands(HChild(h, 1))

\* The merged field set of the mixin the target of the index resolves to.
MergedFields(h) == createFieldSet(RootContext, TargetValue(h).h, MaxResolve)

\* The fields of the merged set that the filter of resolveIndex keeps:
\* those whose id is the id of the index.
MatchingFields(h) ==
  {x \in DOMAIN MergedFields(h).fields :
     LET field == HNode(RootContext, MergedFields(h).fields[x])
     IN  ~IsNull(field.id) /\ field.id.name = HNode(RootContext, h).id.name}

\* C17: resolving an index whose target resolves to a mixin raises an
\* internal error unless exactly one field of the merged field set is
\* named by the id, and then it returns the value expression of that field;
\* a hover on the id of an index with no matching field raises.
C17_MixinIndexExactlyOne ==
  /\ cache.kind = "ok"
       => \A h \in Indexes :
            (TargetIsMixin(h) /\ MergedFields(h).kind = "Fields")
              => IF Cardinality(MatchingFields(h)) = 1
                   THEN \E x \in MatchingFields(h) :
                          resolveIndex(RootContext, h, MaxResolve)
                            = RNode(Expr2OfField(RootContext, MergedFields(h).fields[x]))
                   ELSE resolveIndex(RootContext, h, MaxResolve) = RThrow
  /\ out.op = "hover"
       => \A h \in HoveredIndexes(out) :
            (/\ TargetIsMixin(h)
             /\ MergedFields(h).kind = "Fields"
             /\ Cardinality(MatchingFields(h)) # 1)
              => out.outcome = "thrown"

\* A hover on the id of an index into a mixin none of whose fields has the
\* name: the request raises.
C17_Witness ==
  /\ out.op = "hover"
  /\ \E h \in HoveredIndexes(out) :
       /\ TargetIsMixin(h)
       /\ MergedFields(h).kind = "Fields"
       /\ MatchingFields(h) = {}
       /\ resolveIndex(RootContext, h, MaxResolve) = RThrow
       /\ out.outcome = "thrown"

\* An index into a mixin exactly one of whose merged fields has the name.
MixinIndexResolved ==
  /\ cache.kind = "ok"
  /\ \E h \in Indexes :
       /\ TargetIsMixin(h)
       /\ MergedFields(h).kind = "Fields"
       /\ Cardinality(MatchingFields(h)) = 1
       /\ resolveIndex(RootContext, h, MaxResolve).kind = "Node"

\* The filter of resolveIndex never keeps two fields: the merged field set
\* has one field per name.
MixinIndexAtMostOne ==
  cache.kind = "ok"
    => \A h \in Indexes :
         (TargetIsMixin(h) /\ MergedFields(h).kind = "Fields")
           => Cardinality(MatchingFields(h)) <= 1

\* The objects of the parsed tree.
Objects ==
  {Handle("cur", p) :
     p \in {q \in Paths(cache.root) : NodeAt(cache.root, q).type = "ObjectNode"}}

\* The values of the fields of the object o that are named name.
FieldValues(o, name) ==
  {Expr2OfField(RootContext, HChild(o, i)) :
     i \in {k \in 1..Len(HNode(RootContext, o).fields) :
              /\ ~IsNull(HNode(RootContext, o).fields[k].id)
              /\ HNode(RootContext, o).fields[k].id.name = name}}

\* The binding graph: the nodes a resolution of h goes to next.  A variable
\* leads to the value it is bound to, a `local` to its body, a mixin to its
\* operands, an index to its target and to the values of the fields named
\* by its id in the objects its target leads to.  seen holds the nodes of
\* the chain so far, which are not followed again.
RECURSIVE ReachFrom(_, _)
RECURSIVE NextOf(_, _)
NextOf(h, seen) ==
  LET n == HNode(RootContext, h)
  IN  CASE n.type = "VarNode" ->
             IF ~HasEnv(RootContext, h) \/ n.id.name \notin DOMAIN HEnv(RootContext, h) THEN {}
             ELSE LET bind == HEnv(RootContext, h)[n.id.name]
                      bh == Deref(h, bind)
                      body == IF bind.kind = "field" THEN Expr2OfField(RootContext, bh)
                              ELSE BodyOfBind(RootContext, bh)
                  IN  IF bind.kind \in {"param", "spec"} THEN {} ELSE {body} \ {NoHandle}
        [] n.type = "LocalNode" -> {BodyOfLocal(RootContext, h)}
        [] n.type = "BinaryNode" ->
             IF n.op = "BopPlus" THEN {HChild(h, 1), HChild(h, 2)} ELSE {}
        [] n.type = "IndexNode" ->
             IF IsNull(n.target) \/ IsNull(n.id) THEN {}
             ELSE {HChild(h, 1)}
                    \cup (UNION {FieldValues(o, n.id.name) :
                                   o \in ReachFrom(HChild(h, 1), seen \cup {h}) \cap Objects}
                          \ {NoHandle})
        [] OTHER -> {}

ReachFrom(h, seen) ==
  IF h \in seen THEN {}
  ELSE {h} \cup UNION {ReachFrom(n, seen \cup {h}) : n \in NextOf(h, seen)}

\* The chain of binds, field values and mixin operands that starts at h
\* leads back to a node of the chain.
RECURSIVE LeadsBack(_, _)
LeadsBack(h, seen) ==
  \/ h \in seen
  \/ \E n \in NextOf(h, seen) : LeadsBack(n, seen \cup {h})

\* The variable references and the indexes of the parsed tree.
References ==
  {Handle("cur", p) :
     p \in {q \in Paths(cache.root) :
              /\ NodeAt(cache.root, q).type \in {"VarNode", "IndexNode"}
              /\ HasEnv(RootContext, Handle("cur", q))}}

\* The variable reference or index whose identifier the hover points at.
HoveredReferences(o) ==
  IF cache.kind # "ok" THEN {}
  ELSE LET found == getNodeAtPositionFromAst(cache.root, Location(o.line, o.column))
       IN  IF found.kind # "Found" \/ Len(found.node.path) = 0 THEN {}
           ELSE LET p == Front(found.node.path)
                IN  IF /\ NodeAt(cache.root, found.node.path).type = "IdentifierNode"
                       /\ Handle("cur", p) \in References
                      THEN {Handle("cur", p)}
                      ELSE {}

\* The results of the resolvers that apply to the reference h.
Resolutions(h, fuel) ==
  LET n == HNode(RootContext, h)
  IN  {resolveIndirections(RootContext, h, fuel)}
        \cup (IF n.type = "IndexNode" THEN {resolveIndex(RootContext, h, fuel)}
              ELSE {resolveVar(RootContext, h, fuel)}
                     \cup (IF n.id.name \in DOMAIN HEnv(RootContext, h)
                             THEN {resolveFromEnv(RootContext, h, n.id.name, fuel)}
                             ELSE {}))

\* The resolvers that apply to the reference h finish: with a node, null or
\* an internal error, before the call stack ends, and with the same result
\* when given more room.
Finishes(h) ==
  /\ \A r \in Resolutions(h, MaxResolve) :
       r # ROverflow /\ r.kind \in {"Node", "Null", "Throw"}
  /\ Resolutions(h, MaxResolve) = Resolutions(h, MaxResolve + 1)

\* C18: for every variable reference or index whose chain of binds, field
\* values and mixin operands never leads back to itself, resolveVar /
\* resolveIndex / resolveFromEnv and the resolveIndirections loop finish
\* with a node, null or an internal error: the recursion ends before the
\* call stack does, and gives the same result with more room.  Stated as:
\* every reference finishes or its chain leads back.
C18_AcyclicResolutionTerminates ==
  /\ cache.kind = "ok"
       => \A h \in References : Finishes(h) \/ LeadsBack(h, {})
  /\ out.op = "hover"
       => \A h \in HoveredReferences(out) :
            \/ resolveIdentifier(RootContext, HChild(h, Len(Kids(HNode(RootContext, h)))))
                 # ROverflow
            \/ LeadsBack(h, {})

\* A hover on a variable bound through a chain of binds to a mixin whose
\* operands are variables: the chain does not lead back, the resolvers
\* finish and the hover is answered.
C18_Witness ==
  /\ out.op = "hover"
  /\ out.outcome = "resolved"
  /\ \E h \in HoveredReferences(out) :
       /\ ~LeadsBack(h, {})
       /\ \E n \in NextOf(h, {}) :
            /\ HNode(RootContext, n).type = "BinaryNode"
            /\ \E m \in NextOf(n, {h}) : HNode(RootContext, m).type = "VarNode"
       /\ resolveVar(RootContext, h, MaxResolve).kind = "Node"
       /\ resolveIndirections(RootContext, h, MaxResolve).kind = "Node"

\* A reference bound to itself: the resolution does not end.
CyclicReferenceOverflows ==
  /\ cache.kind = "ok"
  /\ \E h \in References :
       /\ LeadsBack(h, {})
       /\ ROverflow \in Resolutions(h, MaxResolve)

\* The nodes of the parsed tree.
Nodes == {Handle("cur", p) : p \in DOMAIN cache.ann}

\* The parent of the node is an object field.
InObjectField(h) ==
  /\ HParent(RootContext, h) # NoHandle
  /\ HNode(RootContext, HParent(RootContext, h)).type = "ObjectFieldNode"

\* The node the hover points at, if the cursor locator finds one.
HoveredNodes(o) ==
  IF cache.kind # "ok" THEN {}
  ELSE LET found == getNodeAtPositionFromAst(cache.root, Location(o.line, o.column))
       IN  IF found.kind = "Found" THEN {Handle("cur", found.node.path)} ELSE {}

\* C19 as stated: resolveSymbol resolves a `local` node to itself, and
\* every node that is neither an identifier nor a `local` is unresolved,
\* wherever it sits in the tree.
C19_OtherKindsUnresolved ==
  cache.kind = "ok"
    => \A h \in Nodes :
         /\ HNode(RootContext, h).type = "LocalNode"
              => resolveSymbol(RootContext, h) = RNode(h)
         /\ HNode(RootContext, h).type \notin {"IdentifierNode", "LocalNode"}
              => resolveSymbol(RootContext, h) = RNull

\* C19, amended: resolveSymbol resolves a node of any kind whose parent is
\* an object field to that field; of the other nodes, a `local` resolves to
\* itself, an identifier through variable/index resolution (a field set is
\* unresolved), and a node of any other kind is unresolved.  A hover on a
\* node whose parent is an object field shows the field.
C19_ParentFieldThenKind ==
  /\ cache.kind = "ok"
       => \A h \in Nodes :
            LET type == HNode(RootContext, h).type
                resolved == resolveSymbol(RootContext, h)
            IN  /\ InObjectField(h) => resolved = RNode(HParent(RootContext, h))
                /\ (~InObjectField(h) /\ type = "LocalNode") => resolved = RNode(h)
                /\ (~InObjectField(h) /\ type = "IdentifierNode")
                     => /\ resolved.kind \in {"Node", "Null", "Throw"}
                        /\ HNode(RootContext, HParent(RootContext, h)).type = "VarNode"
                             => resolved = resolveVar(RootContext, HParent(RootContext, h), MaxResolve)
                        /\ HNode(RootContext, HParent(RootContext, h)).type = "IndexNode"
                             => resolved = resolveIndex(RootContext, HParent(RootContext, h), MaxResolve)
                /\ (~InObjectField(h) /\ type \notin {"IdentifierNode", "LocalNode"})
                     => resolved = RNull
  /\ out.op = "hover"
       => \A h \in HoveredNodes(out) :
            InObjectField(h)
              => out.outcome = "resolved" /\ out.rendered = HParent(RootContext, h)

\* A hover on the name of an object field whose value is a literal: the
\* name and the literal both resolve to the field, which the hover shows.
C19_Witness ==
  /\ out.op = "hover"
  /\ \E h \in HoveredNodes(out) :
       /\ InObjectField(h)
       /\ out.rendered = HParent(RootContext, h)
       /\ \E k \in Nodes :
            /\ HNode(RootContext, k).type \notin {"IdentifierNode", "LocalNode"}
            /\ HParent(RootContext, k) = HParent(RootContext, h)
            /\ resolveSymbol(RootContext, k) = RNode(HParent(RootContext, k))

\* The hover is on a located node that is not the name of a function
\* parameter: the symbol under the cursor is resolved.
HoverResolves(h) ==
  \/ HParent(RootContext, h) = NoHandle
  \/ HNode(RootContext, HParent(RootContext, h)).type # "FunctionParamNode"

\* The node the hover shows for the resolved node r: its parent when that
\* is a function, a `local` or an object field, and r is not a function
\* parameter; r itself otherwise.
Shown(r) ==
  IF /\ HNode(RootContext, r).type # "FunctionParamNode"
     /\ HParent(RootContext, r) # NoHandle
     /\ HNode(RootContext, HParent(RootContext, r)).type
          \in {"FunctionNode", "LocalNode", "ObjectFieldNode"}
    THEN HParent(RootContext, r)
    ELSE r

HoverShowsParameter ==
  /\ out.op = "hover"
  /\ \E h \in HoveredNodes(out) :
       /\ HoverResolves(h)
       /\ resolveSymbol(RootContext, h).kind = "Node"
       /\ HNode(RootContext, resolveSymbol(RootContext, h).h).type = "FunctionParamNode"
       /\ out.rendered = resolveSymbol(RootContext, h).h

HoverShowsResolved ==
  /\ out.op = "hover"
  /\ \E h \in HoveredNodes(out) :
       /\ HoverResolves(h)
       /\ resolveSymbol(RootContext, h).kind = "Node"
       /\ HNode(RootContext, resolveSymbol(RootContext, h).h).type # "FunctionParamNode"
       /\ Shown(resolveSymbol(RootContext, h).h) = resolveSymbol(RootContext, h).h
       /\ out.rendered = resolveSymbol(RootContext, h).h

\* The body of a function and the body of a `local`, had they been the
\* resolved node, are shown by the function and the `local`.
FunctionBodyShownByFunction ==
  /\ cache.kind = "ok"
  /\ \E r \in Nodes :
       /\ HParent(RootContext, r) # NoHandle
       /\ HNode(RootContext, HParent(RootContext, r)).type = "FunctionNode"
       /\ HNode(RootContext, r).type # "FunctionParamNode"
       /\ hoverTarget(RootContext, r) = HParent(RootContext, r)

LocalBodyShownByLocal ==
  /\ cache.kind = "ok"
  /\ \E r \in Nodes :
       /\ HParent(RootContext, r) # NoHandle
       /\ HNode(RootContext, HParent(RootContext, r)).type = "LocalNode"
       /\ hoverTarget(RootContext, r) = HParent(RootContext, r)

HoverUnresolvedEmpty ==
  /\ out.op = "hover"
  /\ \E h \in HoveredNodes(out) :
       /\ HoverResolves(h)
       /\ resolveSymbol(RootContext, h).kind = "Null"
       /\ out.rendered = NoHandle

HoverFindFailureEmpty ==
  /\ out.op = "hover"
  /\ cache.kind = "ok"
  /\ isFindFailure(getNodeAtPositionFromAst(cache.root, Location(out.line, out.column)))
  /\ out.outcome = "resolved"
  /\ out.rendered = NoHandle


\* ---------------------------------------------------------------------
\* C21.  The position getNodeAtPositionFromAst hands to the locator.

\* The trees a pending request is located in: the tree of the document when
\* it parses, and the tree of the last successful parse.
LocatedTrees == {d.root : d \in {c \in {cache, lastSuccess} : c.kind = "ok"}}

\* The position is after the end of the tree: on a later line, or on the
\* line of the end at a greater column.
PastEnd(root, pos) ==
  pos.line > 1 \/ (pos.line = 1 /\ pos.column > root.loc.e)

\* C21: for the position of every pending request and every tree it is
\* located in, getNodeAtPositionFromAst answers what the locator answers for
\* the end of the tree when the position is after that end, and what the
\* locator answers for the position itself otherwise; a position after the
\* end is never answered by an unanalyzable failure (before the start or
\* after the end of the document), and a hover there on a document that
\* parses shows what a hover on the end of the tree shows.
C21_PastEndLocatedAtEnd ==
  out.op # "none" =>
    LET pos == Location(out.line, out.column)
    IN  /\ \A root \in LocatedTrees :
             LET found == getNodeAtPositionFromAst(root, pos)
                 endLoc == Location(1, root.loc.e)
             IN  IF PastEnd(root, pos)
                   THEN /\ found = CursorVisitor(endLoc, root)
                        /\ ~isUnanalyzableFindFailure(found)
                   ELSE found = CursorVisitor(pos, root)
        /\ (out.op = "hover" /\ cache.kind = "ok" /\ PastEnd(cache.root, pos))
             => LET atEnd == onHover(cache, text, version, Location(1, cache.root.loc.e))
                IN  out.outcome = atEnd.outcome /\ out.rendered = atEnd.rendered

\* A hover two columns past the end of a document that parses shows the
\* binding of the identifier the document ends with.
C21_Witness ==
  /\ out.op = "hover"
  /\ cache.kind = "ok"
  /\ out.line = 1
  /\ PastEnd(cache.root, Location(out.line, out.column))
  /\ out.rendered # NoHandle

\* A completion on a later line than the last successful parse has, on a
\* document that no longer parses, is located at the end of that parse.
PastEndOfLastParseReached ==
  /\ out.op = "complete"
  /\ cache.kind # "ok"
  /\ lastSuccess.kind = "ok"
  /\ out.line = 2
  /\ ~isUnanalyzableFindFailure(
        getNodeAtPositionFromAst(lastSuccess.root, Location(out.line, out.column)))

\* ---------------------------------------------------------------------
\* C22.  The node getNodeAtPositionFromAst returns.

\* The nodes of the tree with a location range, by path.
Located(root) == {p \in Paths(root) : "loc" \in DOMAIN NodeAt(root, p)}

\* The path of the closest node above p that has a location range (a bind of
\* a `local` has none); the empty path when p is the root.
RECURSIVE LocatedAbove(_, _)
LocatedAbove(root, p) ==
  IF p = <<>> THEN <<>>
  ELSE IF Front(p) \in Located(root) THEN Front(p)
  ELSE LocatedAbove(root, Front(p))

\* The position is inside the tree: within the range of its root.
InsideTree(root, pos) == inRange(pos, root.loc)

\* The nodes whose range contains the position.
Containing(root, pos) == {p \in Located(root) : inRange(pos, NodeAt(root, p).loc)}

\* The siblings of the node at p: the other children of its parent.
Siblings(root, p) ==
  IF p = <<>> THEN {}
  ELSE {q \in Located(root) : Len(q) = Len(p) /\ Front(q) = Front(p) /\ q # p}

\* The node at p is a most specific node containing the position: its range
\* contains the position, both ends included, and no node containing the
\* position has a range strictly within it.
MostSpecific(root, pos, p) ==
  /\ p \in Containing(root, pos)
  /\ \A q \in Containing(root, pos) :
       rangeIsTighter(NodeAt(root, q).loc, NodeAt(root, p).loc)
         => NodeAt(root, q).loc = NodeAt(root, p).loc

\* The node at p has a parent, and the range of the parent encloses the
\* range of the node.
EnclosedByParent(root, ann, p) ==
  /\ p \in DOMAIN ann
  /\ ann[p].parent # NoNode
  /\ rangeIsTighter(NodeAt(root, p).loc, NodeAt(root, LocatedAbove(root, p)).loc)

\* The node found for the position of the pending request in the tree of
\* the document, when the document parses, the position is inside the tree
\* and a node is found there.
FoundInside ==
  IF out.op = "none" \/ cache.kind # "ok"
       \/ ~InsideTree(cache.root, Location(out.line, out.column)) THEN {}
  ELSE LET found == getNodeAtPositionFromAst(cache.root, Location(out.line, out.column))
       IN  IF found.kind = "Found" THEN {found.node.path} ELSE {}

\* C22: the node returned for a position inside an annotated tree is a most
\* specific node whose range contains the position (both ends of a range
\* included), has a parent whose range encloses its own, and has no sibling
\* whose range contains the position.
C22_MostSpecificNodeEnclosedByParent ==
  \A p \in FoundInside :
    LET pos == Location(out.line, out.column)
    IN  /\ MostSpecific(cache.root, pos, p)
        /\ EnclosedByParent(cache.root, cache.ann, p)
        /\ \A q \in Siblings(cache.root, p) : q \notin Containing(cache.root, pos)

\* What holds of the returned node: it is a most specific node containing
\* the position, it has a parent, and no sibling contains the position.
ReturnedNodeMostSpecific ==
  \A p \in FoundInside :
    LET pos == Location(out.line, out.column)
    IN  /\ MostSpecific(cache.root, pos, p)
        /\ p \in DOMAIN cache.ann /\ cache.ann[p].parent # NoNode
        /\ \A q \in Siblings(cache.root, p) : q \notin Containing(cache.root, pos)

\* The returned node lies outside the range of its parent only when the
\* parent is a `super` index, whose range is that of the `super` token.
ReturnedNodeOutsideSuperOnly ==
  \A p \in FoundInside :
    \/ EnclosedByParent(cache.root, cache.ann, p)
    \/ NodeAt(cache.root, Front(p)).type = "SuperIndexNode"

\* A node is returned at the begin column and at the end column of its
\* range.
ReturnedAtBothEnds ==
  \E p \in FoundInside :
    out.column \in {NodeAt(cache.root, p).loc.b, NodeAt(cache.root, p).loc.e}

\* ---------------------------------------------------------------------
\* C23.  The location ranges of the nodes of a parsed tree.

\* The nodes whose range does not lie within the range of their parent.
Outliers(root) ==
  {p \in Located(root) :
     ~rangeIsTighter(NodeAt(root, p).loc, NodeAt(root, LocatedAbove(root, p)).loc)}

\* C23: the range of every node of a successfully parsed tree lies within
\* the range of its parent, as it does when every range runs from the first
\* token of the construct to its last.
C23_ChildRangeWithinParent ==
  cache.kind = "ok" => Outliers(cache.root) = {}

\* Only the children of a `super` index leave the range of their parent.
OutliersUnderSuperOnly ==
  cache.kind = "ok" =>
    \A p \in Outliers(cache.root) :
      NodeAt(cache.root, LocatedAbove(cache.root, p)).type = "SuperIndexNode"

\* The range of a call followed by `tailstrict` ends before that token.
TailstrictOutsideCallRange ==
  (cache.kind = "ok" /\ cache.root.type = "ApplyNode" /\ cache.root.tailStrict)
    => /\ text[Len(text)].kind = "TokenTailStrict"
       /\ cache.root.loc = MakeLocationRange(1, Len(text))

\* A call followed by `tailstrict` parses.
TailstrictCallReached ==
  cache.kind = "ok" /\ cache.root.type = "ApplyNode" /\ cache.root.tailStrict

\* The range of a conditional runs from `if` to the end of its last branch.
ConditionalRange ==
  (cache.kind = "ok" /\ cache.root.type = "ConditionalNode")
    => cache.root.loc = MakeLocationRange(1, Len(text) + 1)



\* ---------------------------------------------------------------------
\* C24.  The names bound by a `local` and by the locals of an object.

\* The `local` nodes and the object literals of the parsed tree, by path.
LocalPaths == {p \in Paths(cache.root) : NodeAt(cache.root, p).type = "LocalNode"}

ObjectPaths == {p \in Paths(cache.root) : NodeAt(cache.root, p).type = "ObjectNode"}

\* The binds of the `local` that bind the name.
BindsOf(local, x) == {i \in 1..Len(local.binds) : local.binds[i].variable.name = x}

\* The object-level `local` fields of the object that bind the name.
ObjectLocalsOf(obj, x) ==
  {i \in 1..Len(obj.fields) : obj.fields[i].kind = "ObjectLocal" /\ obj.fields[i].id.name = x}

\* Token j names a bind: an identifier after `local` or `,` and before `=`
\* or the `(` of a function bind.
BindNameAt(j) ==
  /\ j \in 2..(Len(Tokens) - 1)
  /\ Tokens[j].kind = "TokenIdentifier"
  /\ Tokens[j - 1].kind \in {"TokenLocal", "TokenComma"}
  /\ \/ Tokens[j + 1].kind = "TokenParenL"
     \/ Tokens[j + 1].kind = "TokenOperator" /\ Tokens[j + 1].data = "="

\* Token j stands where a bind is named, after `local` or `,`, and repeats
\* the name of an earlier bind of the same `local` or of the same object: no
\* `;` and no brace lies between the two.
RepeatsEarlierName(j) ==
  /\ j \in 2..Len(Tokens)
  /\ Tokens[j].kind = "TokenIdentifier"
  /\ Tokens[j - 1].kind \in {"TokenLocal", "TokenComma"}
  /\ \E i \in 1..(j - 1) :
       /\ BindNameAt(i)
       /\ Tokens[i].data = Tokens[j].data
       /\ \A k \in (i + 1)..(j - 1) :
            Tokens[k].kind \notin {"TokenSemicolon", "TokenBraceL", "TokenBraceR"}

\* Token j names a bind and repeats the name of an earlier bind of the same
\* `local` or of the same object.
RepeatedBindAt(j) == BindNameAt(j) /\ RepeatsEarlierName(j)

\* C24: in a parsed document no `local` has two binds of one name and no
\* object has two object-level locals of one name, so that the environment
\* of a `local` maps every name it binds to the one bind of that name; a
\* document that repeats a name does not parse, and a 'Duplicate local var'
\* error is located at a name that repeats an earlier one.
C24_LocalNamesUnique ==
  /\ cache.kind = "ok" =>
       /\ \A j \in 1..Len(Tokens) : ~RepeatedBindAt(j)
       /\ \A p \in LocalPaths :
            LET local == NodeAt(cache.root, p)
                env == environmentFromLocal(local, p)
            IN  /\ \A i \in 1..Len(local.binds) :
                     BindsOf(local, local.binds[i].variable.name) = {i}
                /\ DOMAIN env = {local.binds[i].variable.name : i \in 1..Len(local.binds)}
                /\ \A x \in DOMAIN env :
                     \E i \in BindsOf(local, x) :
                       /\ BindsOf(local, x) = {i}
                       /\ env[x] = BindRef("self", p \o <<i>>, "bind")
       /\ \A p \in ObjectPaths :
            LET obj == NodeAt(cache.root, p)
            IN  \A i \in 1..Len(obj.fields) :
                  obj.fields[i].kind = "ObjectLocal"
                    => ObjectLocalsOf(obj, obj.fields[i].id.name) = {i}
  /\ (cache.kind = "parseFailure" /\ cache.err.msg = "Duplicate local var")
       => \E j \in 1..Len(Tokens) : RepeatsEarlierName(j) /\ cache.err.loc = TokenLoc(j)

\* A `local` with two binds of different names inside a `local` that binds
\* one of the names again parses.
C24_Witness ==
  /\ cache.kind = "ok"
  /\ \E p \in LocalPaths : Len(NodeAt(cache.root, p).binds) = 2
  /\ \E p, q \in LocalPaths :
       /\ p # q
       /\ NodeAt(cache.root, p).binds[1].variable.name
            = NodeAt(cache.root, q).binds[1].variable.name

\* An object with two object-level locals of different names parses.
TwoObjectLocalsReached ==
  /\ cache.kind = "ok"
  /\ \E p \in ObjectPaths :
       Cardinality({i \in 1..Len(NodeAt(cache.root, p).fields) :
                      NodeAt(cache.root, p).fields[i].kind = "ObjectLocal"}) = 2

\* A repeated name in a `local` is reported at the later name.
DuplicateBindReported ==
  /\ cache.kind = "parseFailure"
  /\ cache.err.msg = "Duplicate local var"
  /\ Tokens[1].kind = "TokenLocal"
  /\ \E j \in 1..Len(Tokens) : RepeatedBindAt(j) /\ cache.err.loc = TokenLoc(j)

\* A repeated name among the locals of an object is reported at the later
\* name.
DuplicateObjectLocalReported ==
  /\ cache.kind = "parseFailure"
  /\ cache.err.msg = "Duplicate local var"
  /\ Tokens[1].kind = "TokenBraceL"
  /\ \E j \in 1..Len(Tokens) : RepeatedBindAt(j) /\ cache.err.loc = TokenLoc(j)

\* ---------------------------------------------------------------------
\* C25.  The else branch of a conditional.

\* The conditionals of the parsed tree.
Conditionals ==
  {NodeAt(cache.root, p) : p \in {q \in Paths(cache.root) :
                                    NodeAt(cache.root, q).type = "ConditionalNode"}}

\* The token after the true branch of the conditional is `else`.
ElseWritten(n) == Get(Tokens, n.branchTrue.loc.e).kind = "TokenElse"

\* The expression parsed after the `else` of the conditional.
ElseBranch(n) == parse(Tokens, n.branchTrue.loc.e + 1, maxPrecedence, <<>>).v

\* C25: the branchFalse of every conditional of a parsed document is the
\* expression parsed after its `else`, and null exactly when no `else` is
\* written.
C25_BranchFalseIsElseBranch ==
  cache.kind = "ok" =>
    \A n \in Conditionals :
      IF ElseWritten(n) THEN n.branchFalse = ElseBranch(n)
      ELSE IsNull(n.branchFalse)

\* The branchFalse of every conditional of a parsed document is null,
\* whether or not an `else` is written; the range of the conditional runs
\* to the end of the else branch.
BranchFalseAlwaysNull ==
  cache.kind = "ok" =>
    \A n \in Conditionals :
      /\ IsNull(n.branchFalse)
      /\ n.loc.e = IF ElseWritten(n) THEN ElseBranch(n).loc.e ELSE n.branchTrue.loc.e

\* `if a then b else c` parses into a conditional without its else branch.
ElseBranchDropped ==
  /\ cache.kind = "ok"
  /\ \E n \in Conditionals : ElseWritten(n) /\ IsNull(n.branchFalse)


\* ---------------------------------------------------------------------
\* C26.  The key of an object field.

\* The object fields of the parsed tree that have a key: every field but
\* the object-level locals and asserts.
KeyedFields ==
  {NodeAt(cache.root, p) : p \in {q \in Paths(cache.root) :
     /\ NodeAt(cache.root, q).type = "ObjectFieldNode"
     /\ NodeAt(cache.root, q).kind \notin {"ObjectLocal", "ObjectAssert"}}}

\* The first token of the field: its key, or the `[` of a computed key.
KeyToken(f) == Get(Tokens, f.loc.b)

\* The parse of the expression after the `[` of a computed key.
KeyExpression(f) == parse(Tokens, f.loc.b + 1, maxPrecedence, <<>>)

\* C26: every keyed field of a parsed document records its key by kind: an
\* identifier key gives ObjectFieldID with id the identifier and expr1 null,
\* a string key ObjectFieldStr with expr1 the string literal and id null, a
\* computed key `[k]` ObjectFieldExpr with expr1 the parsed expression k and
\* id null, k being followed by `]`.
C26_FieldKeyByKind ==
  cache.kind = "ok" =>
    \A f \in KeyedFields :
      CASE KeyToken(f).kind = "TokenIdentifier" ->
             /\ f.kind = "ObjectFieldID"
             /\ f.id = Identifier(KeyToken(f).data, KeyToken(f).loc)
             /\ IsNull(f.expr1)
        [] KeyToken(f).kind \in {"TokenStringDouble", "TokenStringSingle", "TokenStringBlock"} ->
             /\ f.kind = "ObjectFieldStr"
             /\ isLiteralString(f.expr1)
             /\ f.expr1.value = KeyToken(f).data /\ f.expr1.loc = KeyToken(f).loc
             /\ IsNull(f.id)
        [] OTHER ->
             /\ f.kind = "ObjectFieldExpr"
             /\ KeyToken(f).kind = "TokenBracketL"
             /\ KeyExpression(f).ok
             /\ Get(Tokens, KeyExpression(f).p).kind = "TokenBracketR"
             /\ f.expr1 = KeyExpression(f).v
             /\ IsNull(f.id)

\* What the parser records: as the claim says for identifier and string
\* keys; for a computed key the kind, the closing `]` and a null id, but a
\* null expr1.
FieldKeyRecorded ==
  cache.kind = "ok" =>
    \A f \in KeyedFields :
      CASE KeyToken(f).kind = "TokenIdentifier" ->
             /\ f.kind = "ObjectFieldID"
             /\ f.id = Identifier(KeyToken(f).data, KeyToken(f).loc)
             /\ IsNull(f.expr1)
        [] KeyToken(f).kind \in {"TokenStringDouble", "TokenStringSingle", "TokenStringBlock"} ->
             /\ f.kind = "ObjectFieldStr"
             /\ isLiteralString(f.expr1)
             /\ f.expr1.value = KeyToken(f).data /\ f.expr1.loc = KeyToken(f).loc
             /\ IsNull(f.id)
        [] OTHER ->
             /\ f.kind = "ObjectFieldExpr"
             /\ KeyToken(f).kind = "TokenBracketL"
             /\ KeyExpression(f).ok
             /\ Get(Tokens, KeyExpression(f).p).kind = "TokenBracketR"
             /\ IsNull(f.expr1)
             /\ IsNull(f.id)

\* A parsed object has a field with a string key and a field with a
\* computed key, whose key expression is not recorded.
ComputedKeyDropped ==
  /\ cache.kind = "ok"
  /\ {"ObjectFieldStr", "ObjectFieldExpr"} \subseteq {f.kind : f \in KeyedFields}
  /\ \E f \in KeyedFields : f.kind = "ObjectFieldExpr" /\ IsNull(f.expr1)


\* ---------------------------------------------------------------------
\* C27.  Token accesses and the end of the file.

\* The index of the end-of-file token, the last token of the list.
EndOfFile == Len(Tokens)

\* Tokens of every kind the parser looks for, placed after the end-of-file
\* token.
AfterEnd ==
  {[kind |-> k, data |-> "", loc |-> TokenLoc(EndOfFile + 1)] :
     k \in {"TokenComma", "TokenSemicolon", "TokenDot", "TokenParenL", "TokenParenR",
            "TokenBracketL", "TokenBracketR", "TokenBraceL", "TokenBraceR",
            "TokenFor", "TokenIn", "TokenIf", "TokenThen", "TokenElse",
            "TokenTailStrict", "TokenCommentCpp", "TokenEndOfFile", "TokenNullLit"}}
    \cup {[kind |-> "TokenOperator", data |-> d, loc |-> TokenLoc(EndOfFile + 1)] :
            d \in {":", "=", "+"}}
    \cup {[kind |-> "TokenIdentifier", data |-> "a", loc |-> TokenLoc(EndOfFile + 1)]}

\* C27: the parse of a token list that ends with the end-of-file token
\* never moves the token index past the token after the end of the file;
\* when the end-of-file token has been popped the parse is an error; and
\* whatever token is placed after the end-of-file token, the parse returns
\* the same result at the same token index: nothing the parser does depends
\* on a token beyond the end of the file.
C27_NothingReadPastEndOfFile ==
  WasParsed =>
    LET r == Parse(Tokens)
    IN  /\ r.p <= EndOfFile + 1
        /\ r.p = EndOfFile + 1 => ~r.ok
        /\ \A x \in AfterEnd : Parse(Append(Tokens, x)) = r

\* The end-of-file token is popped inside an array comprehension, where
\* the parser looks for `if`, `for` or `]`.
C27_Witness ==
  /\ cache.kind = "parseFailure"
  /\ Parse(Tokens).p = EndOfFile + 1
  /\ Tokens[1].kind = "TokenBracketL"
  /\ \E i \in 1..EndOfFile : Tokens[i].kind = "TokenFor"
  /\ cache.err.loc = TokenLoc(EndOfFile)

\* The end-of-file token is popped where an object field is looked for.
EndOfFilePoppedInObject ==
  /\ cache.kind = "parseFailure"
  /\ Parse(Tokens).p = EndOfFile + 1
  /\ Tokens[1].kind = "TokenBraceL"
  /\ Tokens[EndOfFile - 1].kind = "TokenComma"
  /\ cache.err.loc = TokenLoc(EndOfFile)

\* A document parses with the token index left on the end-of-file token.
EndOfFilePeeked ==
  cache.kind = "ok" /\ Parse(Tokens).p = EndOfFile


\* ---------------------------------------------------------------------
\* C28.  The progress of the parser through the token list.

\* The number of tokens a parser method has consumed when it starts at
\* token index p0 and returns r.
Consumed(p0, r) == r.p - p0

\* A method started at p0 ends within the token list, at or after p0.
EndsWithin(p0, r) == p0 <= r.p /\ r.p <= EndOfFile + 1

\* parser.parse started at p0 on any precedence level: a successful parse
\* has consumed one token at least, and every token of the node it built.
ParseAdvances(p0) ==
  \A prec \in {0, maxPrecedence} :
    LET r == parse(Tokens, p0, prec, <<>>)
    IN  /\ EndsWithin(p0, r)
        /\ r.ok => Consumed(p0, r) >= 1 /\ r.p >= r.v.loc.e

\* The loops of the parser started at p0 (after the token that opens the
\* list): a loop that ends well has consumed more tokens than it has made
\* iterations, one for each element it collected and one for the token that
\* ends it.
LoopsAdvance(p0) ==
  /\ LET r == parseCommaList(Tokens, p0, "TokenParenR", "args", <<>>, FALSE, TRUE)
     IN  EndsWithin(p0, r) /\ (r.ok => Consumed(p0, r) > Len(r.v.exprs))
  /\ LET r == parseCommaList(Tokens, p0, "TokenParenR", "params", <<>>, FALSE, TRUE)
     IN  EndsWithin(p0, r) /\ (r.ok => Consumed(p0, r) > Len(r.v.exprs))
  /\ LET r == parseArrayRemainder(Tokens, p0, Get(Tokens, p0 - 1))
     IN  /\ EndsWithin(p0, r)
         /\ r.ok => Consumed(p0, r) > (IF r.v.type = "ArrayNode" THEN Len(r.v.elements)
                                       ELSE Len(r.v.specs) + 1)
  /\ LET r == parseObjectRemainder(Tokens, p0, Get(Tokens, p0 - 1), <<>>)
     IN  /\ EndsWithin(p0, r)
         /\ r.ok => Consumed(p0, r) > Len(r.v.objRemainder.fields)
                                        + (IF r.v.objRemainder.type = "ObjectCompNode"
                                             THEN Len(r.v.objRemainder.specs) ELSE 0)
  /\ LET r == parseCompSpecs(Tokens, p0, "TokenBracketR", <<>>)
     IN  EndsWithin(p0, r) /\ (r.ok => Consumed(p0, r) > Len(r.v.compSpecs))
  /\ LET r == parseLocalBinds(Tokens, p0, <<>>)
     IN  EndsWithin(p0, r) /\ (r.ok => Consumed(p0, r) > Len(r.v))
  /\ LET r == parseOptionalComments(Tokens, p0)
     IN  EndsWithin(p0, r) /\ Consumed(p0, r) = Len(r.comments)

\* C28: Parse returns on every token list that ends with the end-of-file
\* token, and from every token index the parser makes progress: a
\* successful parse on any level has consumed a token, and every loop (comma
\* lists, object fields, comprehension specs, array elements, local binds,
\* comments) has consumed at least a token for each of its iterations.
C28_ParserMakesProgress ==
  WasParsed =>
    /\ EndsWithin(1, Parse(Tokens))
    /\ Parse(Tokens).ok => Parse(Tokens).p = EndOfFile
    /\ \A p0 \in 1..EndOfFile : ParseAdvances(p0) /\ LoopsAdvance(p0)

\* A list of two arguments, a `local` of two binds, an array of two
\* elements or an object of two fields has been parsed, each by a loop of
\* two iterations and more.
C28_Witness ==
  /\ cache.kind = "ok"
  /\ \/ cache.root.type = "ApplyNode" /\ Len(cache.root.args) = 2
     \/ cache.root.type = "LocalNode" /\ Len(cache.root.binds) = 2
  /\ \A p0 \in 1..EndOfFile : ParseAdvances(p0) /\ LoopsAdvance(p0)

\* An array of two elements, an object of two fields and a comprehension
\* parse.
ArrayLoopReached ==
  cache.kind = "ok" /\ cache.root.type = "ArrayNode" /\ Len(cache.root.elements) = 2

ObjectLoopReached ==
  cache.kind = "ok" /\ cache.root.type = "ObjectNode" /\ Len(cache.root.fields) = 2

CompSpecLoopReached ==
  cache.kind = "ok" /\ cache.root.type = "ArrayCompNode" /\ Len(cache.root.specs) = 2

\* ---------------------------------------------------------------------
\* C29: completions from the fields of an object or of a mixin.

\* The object literals of the current parse.
ObjectLiterals == {Handle("cur", p) : p \in ObjectPaths}

\* The positions, in the object literal h, of the fields that are keyed by
\* an identifier, are not `local` and have a value.
ValuedFields(h) ==
  LET fields == HNode(RootContext, h).fields
  IN  {i \in 1..Len(fields) :
         /\ ~IsNull(fields[i].id)
         /\ fields[i].kind # "ObjectLocal"
         /\ ~IsNull(fields[i].expr2)}

\* The names of the fields, keyed by an identifier, not `local` and with a
\* value, of an object literal or of the operands of a mixin.
RECURSIVE ValuedFieldNames(_)
ValuedFieldNames(h) ==
  IF HNode(RootContext, h).type = "ObjectNode"
    THEN {HNode(RootContext, h).fields[i].id.name : i \in ValuedFields(h)}
    ELSE UNION {ValuedFieldNames(resolveIndirections(RootContext, HChild(h, i), MaxResolve).h) :
                  i \in 1..2}

\* The object literals, and the mixins all of whose operands are, through
\* any depth of mixins, object literals.
RECURSIVE MergesObjects(_)
MergesObjects(h) ==
  \/ HNode(RootContext, h).type = "ObjectNode"
  \/ /\ h \in Mixins
     /\ \A i \in 1..2 :
          LET operand == resolveIndirections(RootContext, HChild(h, i), MaxResolve)
          IN  operand.kind = "Node" /\ MergesObjects(operand.h)

ObjectMerges == {h \in ObjectLiterals \cup Mixins : MergesObjects(h)}

\* The labels of the completion list built from the fields of h.
CompletedLabels(h) ==
  {c.label :
     c \in completionsFromFields(RootContext,
                                 createFieldSet(RootContext, h, MaxResolve).fields)}

\* The completions of the list built from the fields of h that stand for
\* an object-level `local`.
CompletedLocals(h) ==
  LET fieldSet == createFieldSet(RootContext, h, MaxResolve).fields
  IN  {x \in DOMAIN fieldSet :
         /\ HNode(RootContext, fieldSet[x]).kind = "ObjectLocal"
         /\ x \in CompletedLabels(h)}

\* C29: the completion list built from an object literal, or from a mixin
\* of objects, has the name of every field that is keyed by an identifier,
\* is not `local` and has a value, and no entry for an object-level
\* `local`; a `local` of the object with the name of a field does not
\* remove the field from the list.
C29_ValuedFieldsCompleted ==
  cache.kind = "ok"
    => \A h \in ObjectMerges :
         /\ createFieldSet(RootContext, h, MaxResolve).kind = "Fields"
         /\ ValuedFieldNames(h) \subseteq CompletedLabels(h)
         /\ CompletedLabels(h) \subseteq ValuedFieldNames(h)

\* The name x is declared last, in the object literal h, by a `local`.
LastDeclaredLocal(h, x) ==
  LET fields == HNode(RootContext, h).fields
      named == {i \in 1..Len(fields) : ~IsNull(fields[i].id) /\ fields[i].id.name = x}
  IN  /\ named # {}
      /\ \A i \in named : (\A j \in named : j <= i) => fields[i].kind = "ObjectLocal"

\* What the completion list of an object literal has: the names of the
\* valued fields not followed, in the object, by a `local` of their name;
\* and no list has an entry for a `local`.
FieldsNotShadowedCompleted ==
  cache.kind = "ok"
    => /\ \A h \in ObjectLiterals :
            CompletedLabels(h) = {x \in ValuedFieldNames(h) : ~LastDeclaredLocal(h, x)}
       /\ \A h \in ObjectMerges :
            /\ CompletedLabels(h) \subseteq ValuedFieldNames(h)
            /\ CompletedLocals(h) = {}

\* An object literal with a field followed by a `local` of its name: the
\* field is missing from the completion list.
FieldRemovedByLocal ==
  /\ cache.kind = "ok"
  /\ \E h \in ObjectLiterals :
       \E x \in ValuedFieldNames(h) : LastDeclaredLocal(h, x) /\ x \notin CompletedLabels(h)

\* A mixin of two object literals, the right one with a `local` before a
\* field of its name: the list has the fields of both operands.
MixinFieldsCompleted ==
  /\ cache.kind = "ok"
  /\ \E h \in Mixins :
       /\ h \in ObjectMerges
       /\ Cardinality(ValuedFieldNames(h)) = 2
       /\ CompletedLabels(h) = ValuedFieldNames(h)

\* ---------------------------------------------------------------------
\* C30: the diagnostics published for a document.

\* The failure of lexing and parsing the text the editor holds, or Null
\* when the text parses.
FailureOfText ==
  IF ~Lex(text).ok THEN Lex(text).err
  ELSE IF ~Parse(Lex(text).v).ok THEN Parse(Lex(text).v).err
  ELSE Null

\* The range of the diagnostic is the location of the failure, which is on
\* line 1, with lines and columns counted from 0 instead of from 1.
RangeOfFailure(d, err) ==
  /\ d.range.start.line + 1 = 1
  /\ d.range.start.character + 1 = err.loc.b
  /\ d.range.end.line + 1 = 1
  /\ d.range.end.character + 1 = err.loc.e

\* C30: while a jsonnet document is open, the diagnostics last published
\* for it are those of the parse of the text the editor holds: none if the
\* text parses, otherwise one Error diagnostic whose range is the location
\* of the failure made 0-based; for a document of another language nothing
\* is published and nothing is cached.
C30_DiagnosticsOfLatestText ==
  /\ (opened /\ languageId = "jsonnet")
       => /\ diagnostics.published
          /\ IF IsNull(FailureOfText) THEN diagnostics.list = <<>>
             ELSE /\ Len(diagnostics.list) = 1
                  /\ diagnostics.list[1].severity = "Error"
                  /\ diagnostics.list[1].message = FailureOfText.msg
                  /\ RangeOfFailure(diagnostics.list[1], FailureOfText)
  /\ languageId # "jsonnet"
       => /\ diagnostics = NotPublished
          /\ cache = NoDoc
          /\ lastSuccess = NoDoc

\* A jsonnet document that parsed, then did not parse after a change: one
\* diagnostic at the failure, away from the start of the text.
C30_Witness ==
  /\ opened
  /\ languageId = "jsonnet"
  /\ lastSuccess.kind = "ok"
  /\ cache.kind = "parseFailure"
  /\ Len(diagnostics.list) = 1
  /\ diagnostics.list[1].range.start.character > 0
  /\ diagnostics.list[1].range.start.character + 1 = cache.err.loc.b

\* A jsonnet document that does not lex: one diagnostic at the character.
LexFailurePublished ==
  /\ opened
  /\ languageId = "jsonnet"
  /\ cache.kind = "lexFailure"
  /\ Len(diagnostics.list) = 1
  /\ diagnostics.list[1].range.start.character + 1 = cache.err.loc.b

\* A jsonnet document that parses after it did not: the list is empty.
DiagnosticsCleared ==
  /\ opened
  /\ languageId = "jsonnet"
  /\ nfrags > 1
  /\ cache.kind = "ok"
  /\ diagnostics = Published(<<>>)

\* A document of another language with text typed into it.
OtherLanguageEdited ==
  /\ opened
  /\ languageId # "jsonnet"
  /\ nfrags > 0
  /\ diagnostics = NotPublished

\* A save publishes what the last open or change published.
SavePublishesTheSame ==
  [][(opened /\ opened' /\ text' = text /\ version' = version /\ out = NoOut /\ out' = NoOut)
       => diagnostics' = diagnostics]_vars

\* Closing a document publishes nothing: the diagnostics of the closed
\* document stay as they were.
CloseKeepsDiagnostics ==
  [][(opened /\ ~opened') => diagnostics' = diagnostics]_vars

\* A closed jsonnet document whose last diagnostics are still published.
ClosedWithDiagnostics ==
  /\ ~opened
  /\ languageId = "jsonnet"
  /\ Len(diagnostics.list) = 1

====
